---- MODULE Spec2Model ----
(***************************************************************************)
(* Model of the categorical engine of the NPR proof assistant: the         *)
(* Generator / Diagram / Rewrite / Cospan / Cone values, the structural    *)
(* validators, normalization, composition and contraction.                 *)
(*                                                                         *)
(* JavaScript values are tagged records: every value carries its runtime   *)
(* type in field t, an absent property is Undefined.  Structural equality  *)
(* (toEqual) is TLA+ equality of these records.                            *)
(***************************************************************************)
EXTENDS Integers, Sequences, FiniteSets, TLC

VARIABLES op, args, result, registryAxioms, calls,
          currentDiagram, history,
          mode, previousMode, transitioning, timers, now,
          availableRules, ruleIndex, collections

\* the state of the diagram store, of the mode store with its pending
\* timers and the clock, and of the rewrite store
diagramStoreVars == <<currentDiagram, history>>
modeStoreVars == <<mode, previousMode, transitioning, timers, now>>
rewriteStoreVars == <<availableRules, ruleIndex, collections>>

vars ==
  <<op, args, result, registryAxioms, calls, diagramStoreVars, modeStoreVars,
    rewriteStoreVars>>

(***************************************************************************)
(* Bounds of the model.                                                    *)
(***************************************************************************)
\* frames the call stack holds before the runtime raises RangeError
StackLimit == 32
\* longest cospan sequence of a generated diagram
MaxCospans == 2
\* longest list of rewrites handed to the list operations
MaxList == 3
\* largest dimension tag of a generated diagram
MaxDim == 4
\* longest list of axioms handed to the axiom operations
MaxAxioms == 3
\* most calls made on one AxiomRegistry
MaxCalls == 3
\* most calls made on the diagram store in one session
MaxStoreCalls == 3
\* most calls made on the mode store in one session
MaxModeCalls == 3
\* the time a session of the mode store lasts, in ms
MaxTime == 800
\* most calls made on the rewrite store in one session
MaxRewriteCalls == 3
\* longest list of entries handed to batchAddRules
MaxBatch == 2

(***************************************************************************)
(* JavaScript values.                                                      *)
(***************************************************************************)
Undefined == [t |-> "undefined"]
Null == [t |-> "null"]
Num(k) == [t |-> "number", n |-> k]
Str(x) == [t |-> "string", s |-> x]
Bool(b) == [t |-> "boolean", b |-> b]
Arr(seq) == [t |-> "array", a |-> seq]

\* !x for the values of the model
Falsy(x) ==
  \/ x.t \in {"undefined", "null"}
  \/ x.t = "number" /\ x.n = 0
  \/ x.t = "string" /\ x.s = ""
  \/ x.t = "boolean" /\ ~x.b

\* typeof x
TypeOf(x) ==
  IF x.t \in {"null", "array", "object", "ref"} THEN "object" ELSE x.t

IsArray(x) == x.t = "array"

\* outcome of a call: a returned value or a thrown error
Return(v) == [kind |-> "return", value |-> v]
\* message is the literal the code throws, details the values the code
\* interpolates into it (none where the message is a constant string)
ThrowWith(name, message, details) ==
  [kind |-> "throw", name |-> name, message |-> message, details |-> details]
Throw(name, message) == ThrowWith(name, message, <<>>)

Returned(r) == r.kind = "return"
Raised(r) == r.kind = "throw"

(***************************************************************************)
(* Data model: src/src/types/rewrite.ts                                    *)
(***************************************************************************)
Generator(id, label, color) ==
  [t |-> "object", id |-> id, label |-> label, color |-> color]

\* an object with the properties of both diagram shapes
DiagramObject(dimension, generator, source, cospans) ==
  [t |-> "object", dimension |-> dimension, generator |-> generator,
   source |-> source, cospans |-> cospans]

Diagram0(generator) == DiagramObject(Num(0), generator, Undefined, Undefined)

DiagramN(dimension, source, cospans) ==
  DiagramObject(Num(dimension), Undefined, source, Arr(cospans))

\* an object with the properties of all three rewrite shapes
RewriteObject(dimension, source, target, identity, cones) ==
  [t |-> "object", dimension |-> dimension, source |-> source,
   target |-> target, identity |-> identity, cones |-> cones]

Rewrite0(source, target) ==
  [t |-> "object", dimension |-> Num(0), source |-> source, target |-> target,
   identity |-> Undefined, cones |-> Undefined]

RewriteI ==
  [t |-> "object", dimension |-> Num(1), source |-> Undefined,
   target |-> Undefined, identity |-> Bool(TRUE), cones |-> Undefined]

RewriteN(dimension, cones) ==
  [t |-> "object", dimension |-> Num(dimension), source |-> Undefined,
   target |-> Undefined, identity |-> Undefined, cones |-> Arr(cones)]

Cospan(forward, backward) ==
  [t |-> "object", forward |-> forward, backward |-> backward]

Cone(index, source, target, slices) ==
  [t |-> "object", index |-> Num(index), source |-> Arr(source),
   target |-> target, slices |-> Arr(slices)]

createGeneratorRewrite(source, target) == Rewrite0(source, target)

createIdentityRewrite == RewriteI

createEmptyDiagram == Diagram0(Generator(Str("empty"), Str("eps"), Undefined))

createGeneratorDiagram(generator) == Diagram0(generator)

\* a reference back to the object the traversal started from: the way a
\* diagram whose source chain leads back to itself is written down
RootRef == [t |-> "ref"]

Deref(x, root) == IF x.t = "ref" THEN root ELSE x

isValidGenerator(generator) ==
  IF Falsy(generator) \/ TypeOf(generator) # "object" THEN FALSE
  ELSE IF TypeOf(generator.id) # "string" \/ generator.id = Str("") THEN FALSE
  ELSE IF generator.label # Undefined /\ TypeOf(generator.label) # "string"
    THEN FALSE
  ELSE IF generator.color # Undefined
          /\ generator.color # Str("cartesian")
          /\ generator.color # Str("cocartesian")
    THEN FALSE
  ELSE TRUE

RECURSIVE isValidRewrite(_)
RECURSIVE isValidCospan(_)
RECURSIVE isValidCone(_)

isValidRewrite(rewrite) ==
  IF Falsy(rewrite) \/ TypeOf(rewrite) # "object" THEN FALSE
  ELSE IF TypeOf(rewrite.dimension) # "number" THEN FALSE
  ELSE IF rewrite.dimension.n = 0
    THEN isValidGenerator(rewrite.source) /\ isValidGenerator(rewrite.target)
  ELSE IF rewrite.dimension.n = 1 THEN rewrite.identity = Bool(TRUE)
  ELSE IF rewrite.dimension.n < 0 THEN FALSE
  ELSE IF ~IsArray(rewrite.cones) THEN FALSE
  ELSE (\A i \in 1..Len(rewrite.cones.a) : isValidCone(rewrite.cones.a[i]))

isValidCospan(cospan) ==
  IF Falsy(cospan) \/ TypeOf(cospan) # "object" THEN FALSE
  ELSE isValidRewrite(cospan.forward) /\ isValidRewrite(cospan.backward)

isValidCone(cone) ==
  IF Falsy(cone) \/ TypeOf(cone) # "object" THEN FALSE
  ELSE IF TypeOf(cone.index) # "number" \/ cone.index.n < 0 THEN FALSE
  ELSE IF ~IsArray(cone.source) THEN FALSE
  ELSE IF ~isValidCospan(cone.target) THEN FALSE
  ELSE IF ~IsArray(cone.slices) THEN FALSE
  ELSE IF ~(\A i \in 1..Len(cone.source.a) : isValidCospan(cone.source.a[i]))
    THEN FALSE
  ELSE (\A i \in 1..Len(cone.slices.a) : isValidRewrite(cone.slices.a[i]))

\* isValidDiagram run with `frames` call frames left; "RangeError" is the
\* runtime's stack overflow, which the function does not catch
RECURSIVE validDiagramFrom(_, _, _)
validDiagramFrom(diagram, root, frames) ==
  IF frames = 0 THEN "RangeError"
  ELSE IF Falsy(diagram) \/ TypeOf(diagram) # "object" THEN "false"
  ELSE IF TypeOf(diagram.dimension) # "number" THEN "false"
  ELSE IF diagram.dimension.n = 0
    THEN IF isValidGenerator(diagram.generator) THEN "true" ELSE "false"
  ELSE IF diagram.dimension.n < 0 THEN "false"
  ELSE LET src == validDiagramFrom(Deref(diagram.source, root), root,
                                    frames - 1)
       IN IF src # "true" THEN src
          ELSE IF ~IsArray(diagram.cospans) THEN "false"
          ELSE "true"

isValidDiagram(diagram) ==
  LET v == validDiagramFrom(diagram, diagram, StackLimit)
  IN IF v = "RangeError"
       THEN Throw("RangeError", "Maximum call stack size exceeded")
       ELSE Return(v = "true")

\* the predicate on values known to be acyclic
Valid(diagram) == isValidDiagram(diagram) = Return(TRUE)

(***************************************************************************)
(* Array.prototype.map over callbacks that may throw: the first throw      *)
(* aborts the map and propagates.                                          *)
(***************************************************************************)
FirstRaised(rs) ==
  rs[CHOOSE i \in 1..Len(rs) :
       Raised(rs[i]) /\ \A j \in 1..(i - 1) : ~Raised(rs[j])]

\* rs holds the outcome of the callback on every element
MapResult(rs) ==
  IF \E i \in 1..Len(rs) : Raised(rs[i])
    THEN FirstRaised(rs)
    ELSE Return(Arr([i \in 1..Len(rs) |-> rs[i].value]))

(***************************************************************************)
(* Normalization: src/unnamed/part_000                                     *)
(***************************************************************************)
MAX_DEPTH == 100

\* rewrite.dimension === 1 && 'identity' in rewrite && rewrite.identity
IsIdentityRewrite(rewrite) ==
  /\ rewrite.dimension = Num(1)
  /\ rewrite.identity # Undefined
  /\ ~Falsy(rewrite.identity)

RECURSIVE normalizeRewrite(_)
RECURSIVE normalizeCospan(_)
RECURSIVE normalizeCone(_)

normalizeRewrite(rewrite) ==
  IF Falsy(rewrite)
    THEN Throw("Error", "Cannot normalize null or undefined rewrite")
  ELSE IF ~isValidRewrite(rewrite)
    THEN Throw("Error", "Cannot normalize invalid rewrite structure")
  ELSE IF IsIdentityRewrite(rewrite) THEN Return(rewrite)
  ELSE IF rewrite.dimension.n = 0 THEN Return(rewrite)
  ELSE IF rewrite.dimension.n > 1 /\ rewrite.cones # Undefined
    THEN LET normalizedCones ==
        MapResult([i \in 1..Len(rewrite.cones.a) |->
                     normalizeCone(rewrite.cones.a[i])])
         IN IF Raised(normalizedCones) THEN normalizedCones
            ELSE Return([t |-> "object", dimension |-> rewrite.dimension,
                         source |-> Undefined, target |-> Undefined,
                         identity |-> Undefined,
                         cones |-> normalizedCones.value])
  ELSE Return(rewrite)

normalizeCospan(cospan) ==
  LET forward == normalizeRewrite(cospan.forward)
      backward == normalizeRewrite(cospan.backward)
  IN IF Raised(forward) THEN forward
     ELSE IF Raised(backward) THEN backward
     ELSE Return([t |-> "object", forward |-> forward.value,
                  backward |-> backward.value])

normalizeCone(cone) ==
  LET source ==
      MapResult([i \in 1..Len(cone.source.a) |->
                   normalizeCospan(cone.source.a[i])])
      target == normalizeCospan(cone.target)
      slices ==
          MapResult([i \in 1..Len(cone.slices.a) |->
                       normalizeRewrite(cone.slices.a[i])])
  IN IF Raised(source) THEN source
     ELSE IF Raised(target) THEN target
     ELSE IF Raised(slices) THEN slices
     ELSE Return([t |-> "object", index |-> cone.index,
                  source |-> source.value, target |-> target.value,
                  slices |-> slices.value])

isRedundantCospan(cospan) ==
  IsIdentityRewrite(cospan.forward) /\ IsIdentityRewrite(cospan.backward)

\* a reduction that stops after the first redundant cospan it drops
RECURSIVE reduceFirstRedundantCospan(_)
reduceFirstRedundantCospan(cospans) ==
  IF cospans = <<>> THEN <<>>
  ELSE LET cospan == Head(cospans)
       IN IF ~isValidCospan(cospan)
            THEN reduceFirstRedundantCospan(Tail(cospans))
          ELSE IF isRedundantCospan(cospan)
            THEN SelectSeq(Tail(cospans), isValidCospan)
          ELSE <<cospan>> \o reduceFirstRedundantCospan(Tail(cospans))

RECURSIVE reduceRedundantCospans(_)
reduceRedundantCospans(cospans) ==
  IF cospans = <<>> THEN <<>>
  ELSE LET cospan == Head(cospans)
           rest == reduceRedundantCospans(Tail(cospans))
       IN IF isValidCospan(cospan) /\ ~isRedundantCospan(cospan)
            THEN <<cospan>> \o rest
            ELSE rest

\* checkCycles of normalizeDiagram: node identities are positions on the
\* source chain, a back reference resolves to position 0
RECURSIVE checkCycles(_, _, _, _, _)
checkCycles(d, root, depth, ident, visited) ==
  IF depth > MAX_DEPTH
    THEN Throw("Error",
               "Maximum normalization depth exceeded - possible cycle detected")
  ELSE IF ident \in visited
    THEN Throw("Error", "Circular reference detected during normalization")
  ELSE IF d.dimension.n > 0
    THEN checkCycles(Deref(d.source, root), root, depth + 1,
                     IF d.source.t = "ref" THEN 0 ELSE depth + 1,
                     visited \cup {ident})
  ELSE Return(Undefined)

NormalizeCospanIfValid(cospan) ==
  IF isValidCospan(cospan) THEN normalizeCospan(cospan) ELSE Return(cospan)

RECURSIVE normalizeDiagram(_)
normalizeDiagram(diagram) ==
  IF Falsy(diagram)
    THEN Throw("Error", "Cannot normalize null or undefined diagram")
  ELSE LET valid == isValidDiagram(diagram)
  IN IF Raised(valid) THEN valid
  ELSE IF ~valid.value
    THEN Throw("Error", "Cannot normalize invalid diagram structure")
  ELSE LET cycles == checkCycles(diagram, diagram, 0, 0, {})
  IN IF Raised(cycles) THEN cycles
  ELSE IF diagram.dimension.n = 0 THEN Return(diagram)
  ELSE LET normalizedSource == normalizeDiagram(diagram.source)
  IN IF Raised(normalizedSource) THEN normalizedSource
  ELSE LET normalizedCospans ==
             MapResult([i \in 1..Len(diagram.cospans.a) |->
                          NormalizeCospanIfValid(diagram.cospans.a[i])])
  IN IF Raised(normalizedCospans) THEN normalizedCospans
  ELSE Return([t |-> "object", dimension |-> diagram.dimension,
               generator |-> Undefined,
               source |-> normalizedSource.value,
               cospans |->
                 Arr(reduceRedundantCospans(normalizedCospans.value.a))])

RECURSIVE performBetaReduction(_)

BetaReduceCospan(cospan) ==
  LET forward == performBetaReduction(cospan.forward)
      backward == performBetaReduction(cospan.backward)
  IN IF Raised(forward) THEN forward
     ELSE IF Raised(backward) THEN backward
     ELSE Return([t |-> "object", forward |-> forward.value,
                  backward |-> backward.value])

BetaReduceCone(cone) ==
  LET source ==
      MapResult([i \in 1..Len(cone.source.a) |->
                   BetaReduceCospan(cone.source.a[i])])
      target == BetaReduceCospan(cone.target)
      slices ==
          MapResult([i \in 1..Len(cone.slices.a) |->
                       performBetaReduction(cone.slices.a[i])])
  IN IF Raised(source) THEN source
     ELSE IF Raised(target) THEN target
     ELSE IF Raised(slices) THEN slices
     ELSE Return([t |-> "object", index |-> cone.index,
                  source |-> source.value, target |-> target.value,
                  slices |-> slices.value])

performBetaReduction(rewrite) ==
  IF ~isValidRewrite(rewrite)
    THEN Throw("Error", "Cannot perform beta reduction on invalid rewrite")
  ELSE IF rewrite.dimension.n = 0 THEN Return(rewrite)
  ELSE IF IsIdentityRewrite(rewrite) THEN Return(rewrite)
  ELSE IF rewrite.dimension.n > 1 /\ rewrite.cones # Undefined
    THEN LET reducedCones ==
        MapResult([i \in 1..Len(rewrite.cones.a) |->
                     BetaReduceCone(rewrite.cones.a[i])])
         IN IF Raised(reducedCones) THEN reducedCones
            ELSE Return([t |-> "object", dimension |-> rewrite.dimension,
                         source |-> Undefined, target |-> Undefined,
                         identity |-> Undefined,
                         cones |-> reducedCones.value])
  ELSE Return(rewrite)

rewritesEqual(rewrite1, rewrite2) ==
  IF rewrite1.dimension # rewrite2.dimension THEN FALSE
  ELSE IF rewrite1.dimension.n = 0 /\ rewrite2.dimension.n = 0
    THEN rewrite1.source.id = rewrite2.source.id
         /\ rewrite1.target.id = rewrite2.target.id
  ELSE IF rewrite1.dimension.n = 1 /\ rewrite2.dimension.n = 1
    THEN rewrite1.identity # Undefined /\ rewrite2.identity # Undefined
         /\ rewrite1.identity = rewrite2.identity
  ELSE FALSE

isRewriteInNormalForm(rewrite) ==
  IF ~isValidRewrite(rewrite) THEN Return(FALSE)
  ELSE LET reduced == performBetaReduction(rewrite)
       IN IF Raised(reduced) THEN reduced
          ELSE Return(rewritesEqual(rewrite, reduced.value))

hasReduciblePatterns(diagram) ==
  IF diagram.dimension.n = 0 THEN FALSE
  ELSE LET cospans == diagram.cospans.a
       IN \E i \in 1..(Len(cospans) - 1) :
            /\ isValidCospan(cospans[i]) /\ isValidCospan(cospans[i + 1])
            /\ (\/ isRedundantCospan(cospans[i])
                \/ isRedundantCospan(cospans[i + 1]))

\* the loop over the cospans of isNormalForm: FALSE at the first valid
\* cospan with a leg that is not in normal form
CospansInNormalForm(cospans) ==
  \A i \in 1..Len(cospans) :
    isValidCospan(cospans[i]) =>
      /\ isRewriteInNormalForm(cospans[i].forward) = Return(TRUE)
      /\ isRewriteInNormalForm(cospans[i].backward) = Return(TRUE)

RECURSIVE isNormalForm(_)
isNormalForm(diagram) ==
  LET valid == isValidDiagram(diagram)
  IN IF Raised(valid) THEN valid
     ELSE IF ~valid.value THEN Return(FALSE)
     ELSE IF diagram.dimension.n = 0 THEN Return(TRUE)
     ELSE LET src == isNormalForm(diagram.source)
     IN IF Raised(src) THEN src
        ELSE IF ~src.value THEN Return(FALSE)
        ELSE IF ~CospansInNormalForm(diagram.cospans.a) THEN Return(FALSE)
        ELSE IF hasReduciblePatterns(diagram) THEN Return(FALSE)
        ELSE Return(TRUE)

areInverses(rewrite1, rewrite2) ==
  IF rewrite1.dimension # rewrite2.dimension \/ rewrite1.dimension # Num(0)
    THEN FALSE
  ELSE rewrite1.source.id = rewrite2.target.id
       /\ rewrite1.target.id = rewrite2.source.id

areComposable(rewrite1, rewrite2) ==
  IF rewrite1.dimension # Num(0) \/ rewrite2.dimension # Num(0) THEN FALSE
  ELSE rewrite1.target.id = rewrite2.source.id

composeForReduction(rewrite1, rewrite2) ==
  IF ~areComposable(rewrite1, rewrite2)
    THEN Throw("Error", "Rewrites are not composable for reduction")
  ELSE Return(RewriteObject(Num(0), rewrite1.source, rewrite2.target,
                            Undefined, Undefined))

\* the loop of reduceTerms from position i (counted from 1) on: the
\* sequence of rewrites it pushes
RECURSIVE ReduceFrom(_, _)
ReduceFrom(normalized, i) ==
  IF i > Len(normalized) THEN <<>>
  ELSE LET current == normalized[i]
       IN IF IsIdentityRewrite(current) THEN ReduceFrom(normalized, i + 1)
          ELSE IF i < Len(normalized)
                  /\ areInverses(current, normalized[i + 1])
            THEN ReduceFrom(normalized, i + 2)
          ELSE IF i < Len(normalized)
                  /\ areComposable(current, normalized[i + 1])
            THEN <<composeForReduction(current, normalized[i + 1]).value>>
                 \o ReduceFrom(normalized, i + 2)
          ELSE <<current>> \o ReduceFrom(normalized, i + 1)

reduceTerms(terms) ==
  IF Len(terms) = 0 THEN Return(Arr(<<>>))
  ELSE IF Len(terms) = 1
    THEN LET only == normalizeRewrite(terms[1])
         IN IF Raised(only) THEN only ELSE Return(Arr(<<only.value>>))
  ELSE LET normalized ==
             MapResult([i \in 1..Len(terms) |-> normalizeRewrite(terms[i])])
       IN IF Raised(normalized) THEN normalized
          ELSE Return(Arr(ReduceFrom(normalized.value.a, 1)))

(***************************************************************************)
(* NPR composition check: src/src/types/npr.ts                             *)
(***************************************************************************)
\* called on two diagrams that passed isValidDiagram: returns the error
\* codes it collected and does not throw
validateDiagramComposition(left, right) ==
  (IF ~Valid(left) THEN <<"INVALID_LEFT_DIAGRAM">> ELSE <<>>)
  \o (IF ~Valid(right) THEN <<"INVALID_RIGHT_DIAGRAM">> ELSE <<>>)

(***************************************************************************)
(* Composition: src/unnamed/part_001                                       *)
(***************************************************************************)
Abs(k) == IF k < 0 THEN -k ELSE k

Max(a, b) == IF a > b THEN a ELSE b

isEmptyDiagram(diagram) ==
  diagram.dimension = Num(0) /\ diagram.generator.id = Str("empty")

areVerticallyComposable(left, right) ==
  IF left.dimension.n = 0 /\ right.dimension.n = 0 THEN FALSE
  ELSE IF left.dimension # right.dimension THEN FALSE
  ELSE TRUE

\* a classification whose cut-off for "too far apart" is one too high
getCompositionTypeLoose(left, right) ==
  LET validLeft == isValidDiagram(left)
  IN IF Raised(validLeft) THEN validLeft
  ELSE IF ~validLeft.value THEN Return("invalid")
  ELSE LET validRight == isValidDiagram(right)
  IN IF Raised(validRight) THEN validRight
  ELSE IF ~validRight.value THEN Return("invalid")
  ELSE IF left.dimension = right.dimension
    THEN IF left.dimension.n = 0 THEN Return("horizontal")
         ELSE IF areVerticallyComposable(left, right) THEN Return("vertical")
         ELSE Return("horizontal")
  ELSE IF Abs(left.dimension.n - right.dimension.n) = 1
    THEN Return("whiskering")
  ELSE IF Abs(left.dimension.n - right.dimension.n) > 3
    THEN Return("invalid")
  ELSE Return("horizontal")

getCompositionType(left, right) ==
  LET validLeft == isValidDiagram(left)
  IN IF Raised(validLeft) THEN validLeft
  ELSE IF ~validLeft.value THEN Return("invalid")
  ELSE LET validRight == isValidDiagram(right)
  IN IF Raised(validRight) THEN validRight
  ELSE IF ~validRight.value THEN Return("invalid")
  ELSE IF left.dimension = right.dimension
    THEN IF left.dimension.n = 0 THEN Return("horizontal")
         ELSE IF areVerticallyComposable(left, right) THEN Return("vertical")
         ELSE Return("horizontal")
  ELSE IF Abs(left.dimension.n - right.dimension.n) = 1
    THEN Return("whiskering")
  ELSE IF Abs(left.dimension.n - right.dimension.n) > 2
    THEN Return("invalid")
  ELSE Return("horizontal")

\* a pre-flight check that only lets dimensions one apart through
isComposableWithinOne(left, right) ==
  LET validLeft == isValidDiagram(left)
  IN IF Raised(validLeft) THEN validLeft
  ELSE IF ~validLeft.value THEN Return(FALSE)
  ELSE LET validRight == isValidDiagram(right)
  IN IF Raised(validRight) THEN validRight
  ELSE IF ~validRight.value THEN Return(FALSE)
  ELSE IF isEmptyDiagram(left) \/ isEmptyDiagram(right) THEN Return(TRUE)
  ELSE IF left.dimension = right.dimension THEN Return(TRUE)
  ELSE IF Abs(left.dimension.n - right.dimension.n) <= 1 THEN Return(TRUE)
  ELSE Return(FALSE)

isComposable(left, right) ==
  LET validLeft == isValidDiagram(left)
  IN IF Raised(validLeft) THEN validLeft
  ELSE IF ~validLeft.value THEN Return(FALSE)
  ELSE LET validRight == isValidDiagram(right)
  IN IF Raised(validRight) THEN validRight
  ELSE IF ~validRight.value THEN Return(FALSE)
  ELSE IF isEmptyDiagram(left) \/ isEmptyDiagram(right) THEN Return(TRUE)
  ELSE IF left.dimension = right.dimension THEN Return(TRUE)
  ELSE IF Abs(left.dimension.n - right.dimension.n) <= 2 THEN Return(TRUE)
  ELSE Return(FALSE)

RECURSIVE composeHorizontally(_, _)
composeHorizontally(left, right) ==
  IF left.dimension.n = 0 /\ right.dimension.n = 0
    THEN DiagramN(1, left,
           <<Cospan(createGeneratorRewrite(left.generator, right.generator),
                    createGeneratorRewrite(right.generator, left.generator))>>)
  ELSE IF left.dimension.n > 0 /\ right.dimension.n > 0
    THEN DiagramN(Max(left.dimension.n, right.dimension.n),
                  composeHorizontally(left.source, right.source),
                  left.cospans.a \o right.cospans.a)
  ELSE IF left.dimension.n > right.dimension.n THEN left ELSE right

mergeVerticalCospans(leftCospans, rightCospans) == leftCospans \o rightCospans

composeVertically(left, right) ==
  IF left.dimension.n = 0 \/ right.dimension.n = 0
    THEN Throw("Error", "Cannot vertically compose 0-dimensional diagrams")
  ELSE Return(DiagramN(left.dimension.n, left.source,
                       mergeVerticalCospans(left.cospans.a, right.cospans.a)))

composeByWhiskering(left, right) ==
  LET higherDim == IF left.dimension.n > right.dimension.n THEN left ELSE right
  IN DiagramN(higherDim.dimension.n, higherDim.source, higherDim.cospans.a)

composeDiagrams(left, right) ==
  IF Falsy(left) \/ Falsy(right)
    THEN Throw("Error", "Cannot compose with null or undefined diagrams")
  ELSE LET validLeft == isValidDiagram(left)
  IN IF Raised(validLeft) THEN validLeft
  ELSE IF ~validLeft.value
    THEN Throw("Error", "Cannot compose invalid diagram structures")
  ELSE LET validRight == isValidDiagram(right)
  IN IF Raised(validRight) THEN validRight
  ELSE IF ~validRight.value
    THEN Throw("Error", "Cannot compose invalid diagram structures")
  ELSE LET compositionErrors == validateDiagramComposition(left, right)
  IN IF isEmptyDiagram(left) THEN Return(right)
  ELSE IF isEmptyDiagram(right) THEN Return(left)
  ELSE LET compositionType == getCompositionType(left, right)
  IN IF Raised(compositionType) THEN compositionType
  ELSE IF compositionType.value = "horizontal"
    THEN Return(composeHorizontally(left, right))
  ELSE IF compositionType.value = "vertical"
    THEN composeVertically(left, right)
  ELSE IF compositionType.value = "whiskering"
    THEN Return(composeByWhiskering(left, right))
  ELSE IF compositionType.value = "invalid"
    THEN Throw("Error", "Diagrams cannot be composed: incompatible structures")
  ELSE ThrowWith("Error", "Unknown composition type: ",
                 <<compositionType.value>>)

\* a call of composeDiagrams of a composition of three diagrams: the
\* outer call is made on the diagram the inner call returned, and an error
\* of the inner call ends both
ComposeOuter(left, right) ==
  IF Raised(left) THEN left
  ELSE IF Raised(right) THEN right
  ELSE composeDiagrams(left.value, right.value)

\* composeDiagrams(composeDiagrams(a, b), c) for grouping "left first",
\* composeDiagrams(a, composeDiagrams(b, c)) for grouping "right first":
\* the outer call around the inner one
ComposeAround(grouping, inner, a, c) ==
  ComposeOuter(IF grouping = "left first" THEN inner ELSE Return(a),
               IF grouping = "left first" THEN Return(c) ELSE inner)

ComposeThree(grouping, a, b, c) ==
  ComposeAround(grouping,
                ComposeOuter(Return(IF grouping = "left first" THEN a ELSE b),
                             Return(IF grouping = "left first" THEN b ELSE c)),
                a, c)

composeRewrites(left, right) ==
  IF ~isValidRewrite(left) \/ ~isValidRewrite(right)
    THEN Throw("Error", "Cannot compose invalid rewrites")
  ELSE IF IsIdentityRewrite(left) THEN Return(right)
  ELSE IF IsIdentityRewrite(right) THEN Return(left)
  ELSE IF left.dimension.n = 0 /\ right.dimension.n = 0
    THEN IF left.target.id # right.source.id
           THEN Throw("Error",
             "Generator rewrites are not composable: target/source mismatch")
           ELSE Return(createGeneratorRewrite(left.source, right.target))
  ELSE IF left.dimension.n = 0 /\ right.dimension.n > 0 THEN Return(right)
  ELSE IF left.dimension.n > 0 /\ right.dimension.n = 0 THEN Return(left)
  ELSE IF left.dimension.n > 1 /\ right.dimension.n > 1 THEN Return(left)
  ELSE Return(left)

\* the for loop of composeSequentially from index i on, result so far `acc`
RECURSIVE ComposeFrom(_, _, _)
ComposeFrom(acc, rewrites, i) ==
  IF i > Len(rewrites) THEN Return(acc)
  ELSE LET next == composeRewrites(acc, rewrites[i])
       IN IF Raised(next) THEN next
          ELSE ComposeFrom(next.value, rewrites, i + 1)

composeSequentially(rewrites) ==
  IF Len(rewrites) = 0 THEN Return(createIdentityRewrite)
  ELSE IF Len(rewrites) = 1 THEN Return(rewrites[1])
  ELSE ComposeFrom(rewrites[1], rewrites, 2)

(***************************************************************************)
(* Contraction: src/src/engine/index.ts                                    *)
(***************************************************************************)
\* the helper of the contraction module, not the engine's composeRewrites
contractionComposeRewrites(left, right) ==
  IF IsIdentityRewrite(left) THEN right
  ELSE IF IsIdentityRewrite(right) THEN left
  ELSE IF left.dimension.n = 0 /\ right.dimension.n = 0 THEN left
  ELSE left

\* the for loop of performColimitContraction from index i on
RECURSIVE ContractFrom(_, _, _)
ContractFrom(acc, parts, i) ==
  IF i > Len(parts) THEN acc
  ELSE ContractFrom(contractionComposeRewrites(acc, parts[i]), parts, i + 1)

performColimitContraction(parts) ==
  IF Len(parts) = 0 THEN Return(createIdentityRewrite)
  ELSE IF Len(parts) = 1 THEN Return(parts[1])
  ELSE Return(ContractFrom(parts[1], parts, 2))

areContractible(rewrites) ==
  IF Len(rewrites) < 2 THEN FALSE
  ELSE \A i \in 1..(Len(rewrites) - 1) :
         rewrites[i].dimension = rewrites[i + 1].dimension

\* the loop of findContractibleParts over the cospans: the legs of the
\* valid ones, in order
RECURSIVE CospanRewritesOf(_)
CospanRewritesOf(cospans) ==
  IF cospans = <<>> THEN <<>>
  ELSE (IF isValidCospan(Head(cospans))
          THEN <<Head(cospans).forward, Head(cospans).backward>>
          ELSE <<>>)
       \o CospanRewritesOf(Tail(cospans))

\* the loop of findContractibleParts over the windows slice(i, i + 2), from
\* position i (counted from 1) on
RECURSIVE ContractibleSequencesFrom(_, _)
ContractibleSequencesFrom(cospanRewrites, i) ==
  IF i > Len(cospanRewrites) - 1 THEN <<>>
  ELSE LET sequence == SubSeq(cospanRewrites, i, i + 1)
       IN (IF areContractible(sequence) THEN <<Arr(sequence)>> ELSE <<>>)
          \o ContractibleSequencesFrom(cospanRewrites, i + 1)

\* a search that looks at the cospans of the diagram only
findOwnContractibleParts(diagram) ==
  LET valid == isValidDiagram(diagram)
  IN IF Raised(valid) THEN valid
     ELSE IF ~valid.value THEN Return(Arr(<<>>))
     ELSE IF diagram.dimension.n = 0 THEN Return(Arr(<<>>))
     ELSE LET cospanRewrites == CospanRewritesOf(diagram.cospans.a)
     IN Return(Arr(IF Len(cospanRewrites) >= 2
                     THEN ContractibleSequencesFrom(cospanRewrites, 1)
                     ELSE <<>>))

RECURSIVE findContractibleParts(_)
findContractibleParts(diagram) ==
  LET valid == isValidDiagram(diagram)
  IN IF Raised(valid) THEN valid
     ELSE IF ~valid.value THEN Return(Arr(<<>>))
     ELSE IF diagram.dimension.n = 0 THEN Return(Arr(<<>>))
     ELSE LET sourceParts == findContractibleParts(diagram.source)
     IN IF Raised(sourceParts) THEN sourceParts
     ELSE LET cospanRewrites == CospanRewritesOf(diagram.cospans.a)
     IN Return(Arr(sourceParts.value.a
                   \o (IF Len(cospanRewrites) >= 2
                         THEN ContractibleSequencesFrom(cospanRewrites, 1)
                         ELSE <<>>)))

(***************************************************************************)
(* Axioms: src/src/types/npr.ts, src/src/axioms/npr-rules.ts, the          *)
(* cartesian and cocartesian modules and the validation framework          *)
(* src/unnamed/part_011.                                                   *)
(*                                                                         *)
(* A validator is a function value: the model names it by a tag and        *)
(* CallValidator applies the function the tag stands for.                  *)
(***************************************************************************)
\* an NPRValidationError; details are the values interpolated into message
ValidationErrorWith(code, message, details, severity, location) ==
  [t |-> "object", code |-> code, message |-> message, details |-> details,
   severity |-> severity, location |-> location]

ValidationError(code, message, severity) ==
  ValidationErrorWith(code, message, <<>>, severity, Undefined)

\* the string 'root' followed by k times '.source'
Path(k) == [t |-> "string", sources |-> k]

NPRAxiom(id, category, validator) ==
  [t |-> "object", id |-> id, category |-> category, validator |-> validator]

\* reading a property of null or undefined
TypeErrorOn(x) ==
  ThrowWith("TypeError", "Cannot read properties of", <<x>>)

\* `errors` after `if (!valid) errors.push(...)`, valid being the outcome
\* of isValidDiagram(diagram)
ErrorsUnlessValid(valid, code, message) ==
  IF Raised(valid) THEN valid
  ELSE Return(IF valid.value THEN <<>>
              ELSE <<ValidationError(code, message, "error")>>)

\* the step `if (!isValidDiagram(diagram)) errors.push(...)` of a validator
StructureErrors(diagram, code, message) ==
  ErrorsUnlessValid(isValidDiagram(diagram), code, message)

\* the validator past its structure check: it reads diagram.dimension
ReadDimensionThenReturn(diagram, errors) ==
  IF Raised(errors) THEN errors
  ELSE IF diagram.t \in {"null", "undefined"} THEN TypeErrorOn(diagram)
  ELSE errors

nprAssociativityValidator(diagram) ==
  ReadDimensionThenReturn(diagram,
    StructureErrors(diagram, "INVALID_STRUCTURE",
      "Diagram structure is invalid for associativity check"))

nprUnitValidator(diagram) ==
  StructureErrors(diagram, "INVALID_STRUCTURE",
                  "Diagram structure is invalid for unit check")

\* the validator past its structure check, which returned early with the
\* structure error
CheckGeneratorId(diagram, errors) ==
  IF Raised(errors) THEN errors
  ELSE IF errors.value # <<>> THEN errors
  ELSE IF diagram.dimension = Num(0) /\ Falsy(diagram.generator.id)
    THEN Return(<<ValidationError("INVALID_GENERATOR_ID",
                    "Generator must have valid ID for inverse operations",
                    "error")>>)
  ELSE errors

nprInverseValidator(diagram) ==
  CheckGeneratorId(diagram,
    StructureErrors(diagram, "INVALID_STRUCTURE",
      "Diagram structure is invalid for inverse check"))

nprSymmetryValidator(diagram) ==
  StructureErrors(diagram, "INVALID_STRUCTURE",
                  "Diagram structure is invalid for symmetry check")

\* the validator past its structure check, which returned early with the
\* structure error
CheckCartesianId(diagram, errors) ==
  IF Raised(errors) THEN errors
  ELSE IF errors.value # <<>> THEN errors
  ELSE IF /\ diagram.dimension = Num(0)
          /\ diagram.generator.color = Str("cartesian")
          /\ Falsy(diagram.generator.id)
    THEN Return(<<ValidationError("INVALID_CARTESIAN_ID",
                    "Cartesian generator must have valid ID", "error")>>)
  ELSE errors

cartesianProductValidator(diagram) ==
  CheckCartesianId(diagram,
    StructureErrors(diagram, "INVALID_DIAGRAM_STRUCTURE",
      "Diagram structure is invalid for cartesian product"))

cartesianProjectionValidator(diagram) ==
  StructureErrors(diagram, "INVALID_DIAGRAM_STRUCTURE",
                  "Diagram structure is invalid for projection validation")

cartesianUniversalPropertyValidator(diagram) ==
  StructureErrors(diagram, "INVALID_DIAGRAM_STRUCTURE",
                  "Diagram structure is invalid for universal property")

\* the validator past its structure check, which returned early with the
\* structure error
CheckCocartesianId(diagram, errors) ==
  IF Raised(errors) THEN errors
  ELSE IF errors.value # <<>> THEN errors
  ELSE IF /\ diagram.dimension = Num(0)
          /\ diagram.generator.color = Str("cocartesian")
          /\ Falsy(diagram.generator.id)
    THEN Return(<<ValidationError("INVALID_COCARTESIAN_ID",
                    "Cocartesian generator must have valid ID", "error")>>)
  ELSE errors

cocartesianCoproductValidator(diagram) ==
  CheckCocartesianId(diagram,
    StructureErrors(diagram, "INVALID_DIAGRAM_STRUCTURE",
      "Diagram structure is invalid for cocartesian coproduct"))

cocartesianInjectionValidator(diagram) ==
  StructureErrors(diagram, "INVALID_DIAGRAM_STRUCTURE",
                  "Diagram structure is invalid for injection validation")

cocartesianUniversalPropertyValidator(diagram) ==
  StructureErrors(diagram, "INVALID_DIAGRAM_STRUCTURE",
                  "Diagram structure is invalid for universal property")

structuralValidityValidator(diagram) ==
  StructureErrors(diagram, "INVALID_STRUCTURE",
                  "Diagram does not follow valid zigzag structure")

\* traverseDiagram of the generator-validity axiom, `sources` steps down
\* the source chain, with `frames` call frames left
RECURSIVE traverseDiagram(_, _, _, _)
traverseDiagram(d, root, sources, frames) ==
  IF frames = 0
    THEN Throw("RangeError", "Maximum call stack size exceeded")
  ELSE IF d.t \in {"null", "undefined"} THEN TypeErrorOn(d)
  ELSE IF d.t # "object" THEN TypeErrorOn(Undefined)
  ELSE IF d.dimension = Num(0)
    THEN Return(IF isValidGenerator(d.generator) THEN <<>>
                ELSE <<ValidationErrorWith("INVALID_GENERATOR",
                          "Invalid generator at", <<Path(sources)>>,
                          "error", Path(sources))>>)
  ELSE traverseDiagram(Deref(d.source, root), root, sources + 1, frames - 1)

generatorValidityValidator(diagram) ==
  traverseDiagram(diagram, diagram, 0, StackLimit)

nprAssociativityAxiom ==
  NPRAxiom("npr-associativity", "structural", "nprAssociativity")
nprUnitAxiom == NPRAxiom("npr-unit", "structural", "nprUnit")
nprInverseAxiom == NPRAxiom("npr-inverse", "structural", "nprInverse")
nprSymmetryAxiom == NPRAxiom("npr-symmetry", "structural", "nprSymmetry")
cartesianProductAxiom ==
  NPRAxiom("cartesian-product", "cartesian", "cartesianProduct")
cartesianProjectionAxiom ==
  NPRAxiom("cartesian-projection", "cartesian", "cartesianProjection")
cartesianUniversalPropertyAxiom ==
  NPRAxiom("cartesian-universal", "cartesian", "cartesianUniversalProperty")
cocartesianCoproductAxiom ==
  NPRAxiom("cocartesian-coproduct", "cocartesian", "cocartesianCoproduct")
cocartesianInjectionAxiom ==
  NPRAxiom("cocartesian-injection", "cocartesian", "cocartesianInjection")
cocartesianUniversalPropertyAxiom ==
  NPRAxiom("cocartesian-universal", "cocartesian",
           "cocartesianUniversalProperty")

getNPRAxioms ==
  <<NPRAxiom("structural-validity", "structural", "structuralValidity"),
    NPRAxiom("generator-validity", "structural", "generatorValidity"),
    NPRAxiom("cartesian-coherence", "cartesian", "returnsNothing"),
    NPRAxiom("cocartesian-coherence", "cocartesian", "returnsNothing")>>

\* axiom.validator(diagram); the last four tags are the validators a
\* caller supplies: one that returns [], one that returns an error and a
\* warning and an info entry, one that throws an Error and one that throws
\* a value that is not an Error
CallValidator(axiom, diagram) ==
  CASE axiom.validator = "nprAssociativity" ->
         nprAssociativityValidator(diagram)
    [] axiom.validator = "nprUnit" -> nprUnitValidator(diagram)
    [] axiom.validator = "nprInverse" -> nprInverseValidator(diagram)
    [] axiom.validator = "nprSymmetry" -> nprSymmetryValidator(diagram)
    [] axiom.validator = "cartesianProduct" ->
         cartesianProductValidator(diagram)
    [] axiom.validator = "cartesianProjection" ->
         cartesianProjectionValidator(diagram)
    [] axiom.validator = "cartesianUniversalProperty" ->
         cartesianUniversalPropertyValidator(diagram)
    [] axiom.validator = "cocartesianCoproduct" ->
         cocartesianCoproductValidator(diagram)
    [] axiom.validator = "cocartesianInjection" ->
         cocartesianInjectionValidator(diagram)
    [] axiom.validator = "cocartesianUniversalProperty" ->
         cocartesianUniversalPropertyValidator(diagram)
    [] axiom.validator = "structuralValidity" ->
         structuralValidityValidator(diagram)
    [] axiom.validator = "generatorValidity" ->
         generatorValidityValidator(diagram)
    [] axiom.validator = "returnsNothing" -> Return(<<>>)
    [] axiom.validator = "returnsFindings" ->
         Return(<<ValidationError("TEST_ERROR", "Test error", "error"),
                  ValidationError("TEST_WARNING", "Test warning", "warning"),
                  ValidationError("TEST_INFO", "Test info", "info")>>)
    [] axiom.validator = "throwsError" -> Throw("Error", "Validator failed")
    [] axiom.validator = "throwsValue" -> Throw("string", "Validator failed")

\* the entries of `results` of the given severity, in order
RECURSIVE OfSeverity(_, _)
OfSeverity(results, severity) ==
  IF results = <<>> THEN <<>>
  ELSE (IF Head(results).severity = severity THEN <<Head(results)>>
        ELSE <<>>)
       \o OfSeverity(Tail(results), severity)

\* the loop of validateNPRAspects from axiom i on, and its body once the
\* validator of axiom i has come back with `errors`: a validator that
\* throws ends the loop with its error
RECURSIVE RunAxiomsFrom(_, _, _, _, _)
RECURSIVE CollectThenRunFrom(_, _, _, _, _, _)
CollectThenRunFrom(axioms, diagram, i, allErrors, allWarnings, errors) ==
  IF Raised(errors) THEN errors
  ELSE RunAxiomsFrom(axioms, diagram, i + 1,
                     allErrors \o OfSeverity(errors.value, "error"),
                     allWarnings \o OfSeverity(errors.value, "warning"))

RunAxiomsFrom(axioms, diagram, i, allErrors, allWarnings) ==
  IF i > Len(axioms)
    THEN Return([allErrors |-> allErrors, allWarnings |-> allWarnings])
  ELSE CollectThenRunFrom(axioms, diagram, i, allErrors, allWarnings,
                          CallValidator(axioms[i], diagram))

\* the object validateNPRAspects returns after its loop
NPRValidationResult(run) ==
  IF Raised(run) THEN run
  ELSE Return([t |-> "object",
               isValid |-> Len(run.value.allErrors) = 0,
               errors |-> run.value.allErrors,
               warnings |-> run.value.allWarnings,
               context |-> [t |-> "object", axioms |-> getNPRAxioms,
                            errors |-> run.value.allErrors,
                            warnings |-> run.value.allWarnings]])

validateNPRAspects(diagram) ==
  NPRValidationResult(RunAxiomsFrom(getNPRAxioms, diagram, 1, <<>>, <<>>))

\* try { return validation.isValid } catch { return false }
IsValidOrFalse(validation) ==
  IF Raised(validation) THEN Return(FALSE)
  ELSE Return(validation.value.isValid)

\* checkTypeConsistency past `if (!diagram)`, valid being the outcome of
\* isValidDiagram(diagram)
ConsistentWhenValid(diagram, valid) ==
  IF Raised(valid) THEN valid
  ELSE IF ~valid.value THEN Return(FALSE)
  ELSE IsValidOrFalse(validateNPRAspects(diagram))

checkTypeConsistency(diagram) ==
  IF Falsy(diagram) THEN Return(FALSE)
  ELSE ConsistentWhenValid(diagram, isValidDiagram(diagram))

\* a test that reads the polarity of a dimension-0 diagram only
isCartesianAtDimension0(diagram) ==
  LET valid == isValidDiagram(diagram)
  IN IF Raised(valid) THEN valid
     ELSE IF ~valid.value THEN Return(FALSE)
     ELSE IF diagram.dimension = Num(0)
       THEN Return(diagram.generator.color = Str("cartesian"))
     ELSE Return(FALSE)

RECURSIVE isCartesianDiagram(_)
isCartesianDiagram(diagram) ==
  LET valid == isValidDiagram(diagram)
  IN IF Raised(valid) THEN valid
     ELSE IF ~valid.value THEN Return(FALSE)
     ELSE IF diagram.dimension = Num(0)
       THEN Return(diagram.generator.color = Str("cartesian"))
     ELSE isCartesianDiagram(diagram.source)

RECURSIVE isCocartesianDiagram(_)
isCocartesianDiagram(diagram) ==
  LET valid == isValidDiagram(diagram)
  IN IF Raised(valid) THEN valid
     ELSE IF ~valid.value THEN Return(FALSE)
     ELSE IF diagram.dimension = Num(0)
       THEN Return(diagram.generator.color = Str("cocartesian"))
     ELSE isCocartesianDiagram(diagram.source)

(***************************************************************************)
(* AxiomRegistry: the Map from axiom id to axiom, as the sequence of its   *)
(* values in insertion order.                                              *)
(***************************************************************************)
\* this.axioms.has(id)
hasAxiom(axioms, id) == \E i \in 1..Len(axioms) : axioms[i].id = id

\* this.axioms.get(id)
getAxiom(axioms, id) ==
  IF hasAxiom(axioms, id)
    THEN axioms[CHOOSE i \in 1..Len(axioms) : axioms[i].id = id]
    ELSE Undefined

getAllAxioms(axioms) == axioms

\* a register that replaces the axiom held under the id
registerOverwriting(axioms, axiom) ==
  [outcome |-> Return(Undefined),
   axioms |-> IF hasAxiom(axioms, axiom.id)
                THEN [i \in 1..Len(axioms) |->
                        IF axioms[i].id = axiom.id THEN axiom ELSE axioms[i]]
                ELSE Append(axioms, axiom)]

\* the outcome of register and the Map it leaves behind
register(axioms, axiom) ==
  IF hasAxiom(axioms, axiom.id)
    THEN [outcome |-> ThrowWith("Error", "Axiom is already registered",
                                <<axiom.id>>),
          axioms |-> axioms]
    ELSE [outcome |-> Return(Undefined), axioms |-> Append(axioms, axiom)]

\* the outcome of unregister and the Map it leaves behind
unregister(axioms, id) ==
  LET HasOtherId(axiom) == axiom.id # id
  IN [outcome |-> Return(hasAxiom(axioms, id)),
      axioms |-> SelectSeq(axioms, HasOtherId)]

(***************************************************************************)
(* ValidationReport: the Map from axiom id to its errors and warnings, as  *)
(* the sequence of its entries in insertion order.                         *)
(***************************************************************************)
ValidationReport(diagram, axiomResults) ==
  [t |-> "object", diagram |-> diagram, axiomResults |-> axiomResults]

addAxiomResult(report, axiomId, errors, warnings) ==
  LET entry == [axiomId |-> axiomId, errors |-> errors, warnings |-> warnings]
      results == report.axiomResults
  IN ValidationReport(report.diagram,
       IF \E i \in 1..Len(results) : results[i].axiomId = axiomId
         THEN [i \in 1..Len(results) |->
                 IF results[i].axiomId = axiomId THEN entry ELSE results[i]]
         ELSE Append(results, entry))

getAxiomResult(report, axiomId) ==
  LET results == report.axiomResults
  IN IF \E i \in 1..Len(results) : results[i].axiomId = axiomId
       THEN results[CHOOSE i \in 1..Len(results) :
                      results[i].axiomId = axiomId]
       ELSE Undefined

RECURSIVE ErrorsFrom(_, _)
ErrorsFrom(results, i) ==
  IF i > Len(results) THEN <<>>
  ELSE results[i].errors \o ErrorsFrom(results, i + 1)

getAllErrors(report) == ErrorsFrom(report.axiomResults, 1)

isValid(report) == Len(getAllErrors(report)) = 0

\* error instanceof Error ? error.message : 'Unknown error'
MessageOf(error) ==
  IF error.name \in {"Error", "TypeError", "RangeError"}
    THEN error.message
    ELSE "Unknown error"

\* the report after the try/catch around the validator of `axiom`, which
\* came back with validationResults
AxiomResultAfter(report, axiom, validationResults) ==
  IF Raised(validationResults)
    THEN addAxiomResult(report, axiom.id,
           <<ValidationErrorWith("AXIOM_VALIDATION_ERROR",
               "Error validating axiom",
               <<axiom.id, MessageOf(validationResults)>>,
               "error", Undefined)>>,
           <<>>)
    ELSE addAxiomResult(report, axiom.id,
           OfSeverity(validationResults.value, "error"),
           OfSeverity(validationResults.value, "warning"))

\* a pass that lets the error of a validator escape
RECURSIVE ValidateAbortingFrom(_, _, _, _)
ValidateAbortingFrom(axioms, diagram, i, report) ==
  IF i > Len(axioms) THEN Return(report)
  ELSE LET validationResults == CallValidator(axioms[i], diagram)
       IN IF Raised(validationResults) THEN validationResults
          ELSE ValidateAbortingFrom(axioms, diagram, i + 1,
                 addAxiomResult(report, axioms[i].id,
                   OfSeverity(validationResults.value, "error"),
                   OfSeverity(validationResults.value, "warning")))

\* the loop of validateAllAxioms from axiom i on
RECURSIVE ValidateFrom(_, _, _, _)
ValidateFrom(axioms, diagram, i, report) ==
  IF i > Len(axioms) THEN Return(report)
  ELSE ValidateFrom(axioms, diagram, i + 1,
         AxiomResultAfter(report, axioms[i],
                          CallValidator(axioms[i], diagram)))

defaultRegistry ==
  <<nprAssociativityAxiom, nprUnitAxiom, nprInverseAxiom, nprSymmetryAxiom,
    cartesianProductAxiom, cartesianProjectionAxiom,
    cartesianUniversalPropertyAxiom, cocartesianCoproductAxiom,
    cocartesianInjectionAxiom, cocartesianUniversalPropertyAxiom>>

\* validateAllAxioms past its structure check, valid being the outcome of
\* isValidDiagram(diagram)
ReportWhenValid(diagram, registry, valid) ==
  IF Raised(valid) THEN valid
  ELSE IF ~valid.value
    THEN Return(addAxiomResult(ValidationReport(diagram, <<>>),
                  "basic-structure",
                  <<ValidationError("INVALID_DIAGRAM_STRUCTURE",
                      "Diagram does not follow valid zigzag structure",
                      "error")>>,
                  <<>>))
  ELSE ValidateFrom(getAllAxioms(registry), diagram, 1,
                    ValidationReport(diagram, <<>>))

\* registry is the Map of the AxiomRegistry handed over
validateAllAxioms(diagram, registry) ==
  ReportWhenValid(diagram, registry, isValidDiagram(diagram))

\* the entries of `axioms` of the given category, in order
RECURSIVE OfCategory(_, _)
OfCategory(axioms, category) ==
  IF axioms = <<>> THEN <<>>
  ELSE (IF Head(axioms).category = category THEN <<Head(axioms)>> ELSE <<>>)
       \o OfCategory(Tail(axioms), category)

\* the loop of validateAxiomCompatibility over the ids, from axiom i on
RECURSIVE DuplicateIdConflictsFrom(_, _)
DuplicateIdConflictsFrom(axioms, i) ==
  IF i > Len(axioms) THEN <<>>
  ELSE (IF \E j \in 1..(i - 1) : axioms[j].id = axioms[i].id
          THEN <<ValidationErrorWith("DUPLICATE_AXIOM_ID",
                   "Duplicate axiom ID:", <<axioms[i].id>>, "error",
                   Undefined)>>
          ELSE <<>>)
       \o DuplicateIdConflictsFrom(axioms, i + 1)

CompatibilityResult(conflicts) ==
  [t |-> "object",
   isCompatible |-> Len(OfSeverity(conflicts, "error")) = 0,
   conflicts |-> conflicts]

validateAxiomCompatibility(axioms, diagram) ==
  LET duplicates == DuplicateIdConflictsFrom(axioms, 1)
      hasCartesian == OfCategory(axioms, "cartesian") # <<>>
      hasCocartesian == OfCategory(axioms, "cocartesian") # <<>>
  IN IF ~(hasCartesian /\ hasCocartesian)
       THEN Return(CompatibilityResult(duplicates))
     ELSE IF diagram.t \in {"null", "undefined"} THEN TypeErrorOn(diagram)
     ELSE IF diagram.t # "object" \/ diagram.dimension # Num(0)
       THEN Return(CompatibilityResult(duplicates))
     ELSE IF diagram.generator.t \in {"null", "undefined"}
       THEN TypeErrorOn(diagram.generator)
     ELSE IF diagram.generator.color = Str("cartesian")
       THEN Return(CompatibilityResult(duplicates \o
              <<ValidationError("CATEGORY_MISMATCH",
                  "Applying cocartesian axioms to cartesian structure",
                  "warning")>>))
     ELSE IF diagram.generator.color = Str("cocartesian")
       THEN Return(CompatibilityResult(duplicates \o
              <<ValidationError("CATEGORY_MISMATCH",
                  "Applying cartesian axioms to cocartesian structure",
                  "warning")>>))
     ELSE Return(CompatibilityResult(duplicates))

optimizeValidationOrder(axioms, diagram) ==
  LET structural == OfCategory(axioms, "structural")
      cartesian == OfCategory(axioms, "cartesian")
      cocartesian == OfCategory(axioms, "cocartesian")
  IN IF diagram.t \in {"null", "undefined"} THEN TypeErrorOn(diagram)
     ELSE IF diagram.t = "object" /\ diagram.dimension = Num(0)
       THEN IF diagram.generator.t \in {"null", "undefined"}
              THEN TypeErrorOn(diagram.generator)
            ELSE IF diagram.generator.color = Str("cocartesian")
              THEN Return(Arr(structural \o cocartesian \o cartesian))
            ELSE Return(Arr(structural \o cartesian \o cocartesian))
     ELSE Return(Arr(structural \o cartesian \o cocartesian))

(***************************************************************************)
(* Comprehensive validation: src/src/engine/index.ts                       *)
(***************************************************************************)
\* `cospans[i].forward` and the like
CospanPath(i, side) == [t |-> "string", cospan |-> i, side |-> side]

\* { isValid: errors.length === 0, errors, warnings }
ValidationResult(errors, warnings) ==
  [t |-> "object", isValid |-> Len(errors) = 0, errors |-> errors,
   warnings |-> warnings]

\* the errors checkValidationCycles pushes: node identities are positions
\* on the source chain, a back reference resolves to position 0
RECURSIVE checkValidationCycles(_, _, _, _, _)
checkValidationCycles(d, root, depth, ident, visited) ==
  IF depth > MAX_DEPTH
    THEN <<ValidationErrorWith("VALIDATION_DEPTH_EXCEEDED",
             "Maximum validation depth exceeded at", <<Path(depth)>>,
             "error", Path(depth))>>
  ELSE IF ident \in visited
    THEN <<ValidationErrorWith("CIRCULAR_REFERENCE",
             "Circular reference detected at", <<Path(depth)>>,
             "error", Path(depth))>>
  ELSE IF /\ d.t = "object"
          /\ d.dimension.t = "number"
          /\ d.dimension.n > 0
          /\ ~Falsy(d.source)
    THEN checkValidationCycles(Deref(d.source, root), root, depth + 1,
                               IF d.source.t = "ref" THEN 0 ELSE depth + 1,
                               visited \cup {ident})
  ELSE <<>>

\* the errors validateDiagramGenerators pushes, `sources` steps down the
\* source chain
RECURSIVE validateDiagramGenerators(_, _)
validateDiagramGenerators(diagram, sources) ==
  IF Falsy(diagram)
    THEN <<ValidationErrorWith("NULL_DIAGRAM_IN_VALIDATION",
             "Null diagram encountered at", <<Path(sources)>>,
             "error", Path(sources))>>
  ELSE IF diagram.t # "object" THEN <<>>
  ELSE IF diagram.dimension = Num(0)
    THEN IF isValidGenerator(diagram.generator) THEN <<>>
         ELSE <<ValidationErrorWith("INVALID_GENERATOR",
                  "Invalid generator at", <<Path(sources)>>,
                  "error", Path(sources))>>
  ELSE IF ~Falsy(diagram.source)
    THEN validateDiagramGenerators(diagram.source, sources + 1)
  ELSE <<>>

\* the errors of the cones of a rewrite, from cone i on
RECURSIVE ConeErrorsFrom(_, _)
ConeErrorsFrom(cones, i) ==
  IF i > Len(cones) THEN <<>>
  ELSE (IF isValidCone(cones[i]) THEN <<>>
        ELSE <<ValidationErrorWith("INVALID_CONE", "Cone at index is invalid",
                 <<i - 1>>, "error",
                 [t |-> "string", cone |-> i - 1])>>)
       \o ConeErrorsFrom(cones, i + 1)

validateRewrite(rewrite) ==
  IF Falsy(rewrite)
    THEN ValidationResult(
           <<ValidationError("NULL_REWRITE", "Rewrite is null or undefined",
                             "error")>>, <<>>)
  ELSE IF rewrite.t # "object"
    THEN ValidationResult(
           <<ValidationError("INVALID_REWRITE_STRUCTURE",
                             "Rewrite has invalid structure", "error")>>,
           <<>>)
  ELSE ValidationResult(
         (IF isValidRewrite(rewrite) THEN <<>>
          ELSE <<ValidationError("INVALID_REWRITE_STRUCTURE",
                                 "Rewrite has invalid structure", "error")>>)
         \o (IF rewrite.dimension = Num(0)
               THEN (IF isValidGenerator(rewrite.source) THEN <<>>
                     ELSE <<ValidationErrorWith("INVALID_SOURCE_GENERATOR",
                              "Source generator is invalid", <<>>, "error",
                              Str("source"))>>)
                    \o (IF isValidGenerator(rewrite.target) THEN <<>>
                        ELSE <<ValidationErrorWith("INVALID_TARGET_GENERATOR",
                                 "Target generator is invalid", <<>>,
                                 "error", Str("target"))>>)
             ELSE IF rewrite.dimension = Num(1)
                     /\ rewrite.identity # Undefined
               THEN <<>>
             ELSE IF /\ rewrite.dimension.t = "number"
                     /\ rewrite.dimension.n > 1
                     /\ IsArray(rewrite.cones)
               THEN ConeErrorsFrom(rewrite.cones.a, 1)
             ELSE <<>>),
         IF /\ rewrite.dimension = Num(1)
            /\ rewrite.identity # Undefined
            /\ Falsy(rewrite.identity)
           THEN <<ValidationError("SUSPICIOUS_IDENTITY",
                    "1-dimensional rewrite should have identity: true",
                    "warning")>>
           ELSE <<>>)

\* findings.map(e => ({ ...e, location }))
RECURSIVE AtLocation(_, _)
AtLocation(findings, location) ==
  IF findings = <<>> THEN <<>>
  ELSE <<[Head(findings) EXCEPT !.location = location]>>
       \o AtLocation(Tail(findings), location)

\* cospan is the i-th cospan of the diagram, counted from 0
validateCospan(cospan, i) ==
  IF ~isValidCospan(cospan)
    THEN ValidationResult(
           <<ValidationErrorWith("INVALID_COSPAN", "Invalid cospan at",
               <<CospanPath(i, "")>>, "error", CospanPath(i, ""))>>,
           <<>>)
  ELSE ValidationResult(
         AtLocation(validateRewrite(cospan.forward).errors,
                    CospanPath(i, "forward"))
         \o AtLocation(validateRewrite(cospan.backward).errors,
                       CospanPath(i, "backward")),
         AtLocation(validateRewrite(cospan.forward).warnings,
                    CospanPath(i, "forward"))
         \o AtLocation(validateRewrite(cospan.backward).warnings,
                       CospanPath(i, "backward")))

\* the errors the loop of validateDiagramCospans pushes, from cospan i on
RECURSIVE CospanErrorsFrom(_, _)
CospanErrorsFrom(cospans, i) ==
  IF i > Len(cospans) THEN <<>>
  ELSE validateCospan(cospans[i], i - 1).errors
       \o CospanErrorsFrom(cospans, i + 1)

\* the warnings that loop pushes, from cospan i on
RECURSIVE CospanWarningsFrom(_, _)
CospanWarningsFrom(cospans, i) ==
  IF i > Len(cospans) THEN <<>>
  ELSE validateCospan(cospans[i], i - 1).warnings
       \o CospanWarningsFrom(cospans, i + 1)

\* reading .length of null raises
validateDiagramCospans(diagram) ==
  IF /\ diagram.t = "object"
     /\ diagram.dimension.t = "number"
     /\ diagram.dimension.n > 0
     /\ diagram.cospans # Undefined
    THEN IF IsArray(diagram.cospans)
           THEN Return([errors |-> CospanErrorsFrom(diagram.cospans.a, 1),
                        warnings |->
                          CospanWarningsFrom(diagram.cospans.a, 1)])
         ELSE IF diagram.cospans = Null THEN TypeErrorOn(Null)
         ELSE Return([errors |-> <<>>, warnings |-> <<>>])
    ELSE Return([errors |-> <<>>, warnings |-> <<>>])

\* the findings of the try/catch around validateNPRAspects, which runs
\* only if basic structure is valid
NPRFindings(nprValidation) ==
  IF Raised(nprValidation)
    THEN [errors |->
            <<ValidationErrorWith("NPR_VALIDATION_ERROR",
                "NPR validation failed", <<MessageOf(nprValidation)>>,
                "error", Undefined)>>,
          warnings |-> <<>>]
    ELSE [errors |-> nprValidation.value.errors,
          warnings |-> nprValidation.value.warnings]

\* validateDiagram from its structure check on: valid is the outcome of
\* isValidDiagram(diagram), cospanFindings that of validateDiagramCospans
\* and npr the findings of the NPR-specific validation
CollectFindings(diagram, valid, cospanFindings, npr) ==
  IF Raised(valid) THEN valid
  ELSE IF Raised(cospanFindings) THEN cospanFindings
  ELSE Return(ValidationResult(
         (IF valid.value THEN <<>>
          ELSE <<ValidationError("INVALID_STRUCTURE",
                                 "Diagram has invalid structure", "error")>>)
         \o validateDiagramGenerators(diagram, 0)
         \o cospanFindings.value.errors
         \o (IF valid.value THEN npr.errors ELSE <<>>),
         cospanFindings.value.warnings
         \o (IF valid.value THEN npr.warnings ELSE <<>>)))

\* validateDiagram past the null check, cycleErrors being the errors of
\* checkValidationCycles
ValidateUnlessCyclic(diagram, cycleErrors) ==
  IF Len(cycleErrors) > 0 THEN Return(ValidationResult(cycleErrors, <<>>))
  ELSE CollectFindings(diagram, isValidDiagram(diagram),
                       validateDiagramCospans(diagram),
                       NPRFindings(validateNPRAspects(diagram)))

validateDiagram(diagram) ==
  IF Falsy(diagram)
    THEN Return(ValidationResult(
           <<ValidationError("NULL_DIAGRAM", "Diagram is null or undefined",
                             "error")>>, <<>>))
  ELSE ValidateUnlessCyclic(diagram,
                            checkValidationCycles(diagram, diagram, 0, 0, {}))

(***************************************************************************)
(* The diagram store: src/src/stores/useDiagramStore.ts.  A store state    *)
(* is the pair of currentDiagram and history; an operation yields its      *)
(* outcome and the state it leaves behind.                                 *)
(***************************************************************************)
createEmptyStoreDiagram ==
  Diagram0(Generator(Str("empty"), Str("eps"), Undefined))

enforceNPRAxioms == TRUE

DiagramState(diagram, diagrams) ==
  [currentDiagram |-> diagram, history |-> diagrams]

\* what a store operation did
StoreOutcome(outcome, state) == [outcome |-> outcome, state |-> state]

\* diagrams.filter(Boolean)
FilterBoolean(diagrams) ==
  LET Truthy(d) == ~Falsy(d)
  IN SelectSeq(diagrams, Truthy)

\* setDiagram once validateDiagram has come back with validationResult
SetIfValid(state, diagram, validationResult) ==
  IF Raised(validationResult) THEN StoreOutcome(validationResult, state)
  ELSE IF ~validationResult.value.isValid
    THEN StoreOutcome(Throw("Error", "Invalid diagram structure"), state)
  ELSE StoreOutcome(Return(Undefined),
         DiagramState(diagram,
           FilterBoolean(Append(state.history, state.currentDiagram))))

setDiagram(state, diagram) ==
  SetIfValid(state, diagram, validateDiagram(diagram))

clearDiagram(state) ==
  StoreOutcome(Return(Undefined), DiagramState(createEmptyStoreDiagram, <<>>))

pushToHistory(state, diagram) ==
  DiagramState(state.currentDiagram, Append(state.history, diagram))

\* an undo that goes back to the oldest entry of history
UndoneToOldest(state) ==
  IF Len(state.history) > 0
    THEN DiagramState(Head(state.history), Tail(state.history))
    ELSE state

\* the state undo leaves behind
UndoneState(state) ==
  IF Len(state.history) > 0
    THEN DiagramState(state.history[Len(state.history)],
                      SubSeq(state.history, 1, Len(state.history) - 1))
    ELSE state

undo(state) == StoreOutcome(Return(Undefined), UndoneState(state))

canComposeWith(state, diagram) ==
  IF Falsy(state.currentDiagram) THEN Return(FALSE)
  ELSE isComposable(state.currentDiagram, diagram)

\* position is not read
applyRewrite(state, rewrite, position) ==
  LET current == state.currentDiagram
      pushed == pushToHistory(state, current)
  IN IF Falsy(current) THEN StoreOutcome(Return(Undefined), state)
     ELSE IF enforceNPRAxioms /\ (Falsy(rewrite) \/ TypeOf(rewrite) # "object")
       THEN StoreOutcome(
              Throw("Error", "NPR axiom violation: Invalid rewrite structure"),
              state)
     ELSE IF /\ enforceNPRAxioms
             /\ rewrite.dimension = Num(0)
             /\ (Falsy(rewrite.source) \/ Falsy(rewrite.target))
       THEN StoreOutcome(
              Throw("Error",
                "NPR axiom violation: 0-dimensional rewrite must have source and target"),
              state)
     ELSE IF Falsy(rewrite) THEN StoreOutcome(TypeErrorOn(rewrite), pushed)
     ELSE IF rewrite.dimension = Num(0) /\ current.dimension = Num(0)
       THEN StoreOutcome(Return(Undefined),
              DiagramState(Diagram0(rewrite.target), pushed.history))
     ELSE StoreOutcome(Return(Undefined),
            DiagramState(
              DiagramN(Max(current.dimension.n, 1), current,
                       <<Cospan(rewrite, rewrite)>>),
              pushed.history))

addGenerator(state, generator) ==
  StoreOutcome(Return(Undefined),
    DiagramState(Diagram0(generator),
      FilterBoolean(Append(state.history, state.currentDiagram))))

\* composeWithDiagram once canComposeWith has come back with composable;
\* composedDiagram is the outcome of composeDiagrams, whose error is caught
\* and answered with undo
ComposeIfComposable(state, composable, composedDiagram) ==
  IF Raised(composable) THEN StoreOutcome(composable, state)
  ELSE IF ~composable.value THEN StoreOutcome(Return(Undefined), state)
  ELSE IF Raised(composedDiagram)
    THEN StoreOutcome(Return(Undefined),
           UndoneState(pushToHistory(state, state.currentDiagram)))
  ELSE StoreOutcome(Return(Undefined),
         DiagramState(composedDiagram.value,
           pushToHistory(state, state.currentDiagram).history))

composeWithDiagram(state, diagram) ==
  IF Falsy(state.currentDiagram) THEN StoreOutcome(Return(Undefined), state)
  ELSE ComposeIfComposable(state, canComposeWith(state, diagram),
                           composeDiagrams(state.currentDiagram, diagram))

(***************************************************************************)
(* The mode store: useModeStore (src/src/stores/useDiagramStore.ts from    *)
(* line 329).  A timer is the pending callback of a setTimeout: the mode   *)
(* it will set and the time it is due.                                     *)
(***************************************************************************)
TRANSITION_MS == 300

ModeState(m, previous, isTransitioning, pending) ==
  [mode |-> m, previousMode |-> previous, transitioning |-> isTransitioning,
   timers |-> pending]

\* a setMode that switches the mode at once
setModeAtOnce(state, m, time) ==
  IF state.mode = m THEN state
  ELSE ModeState(m, Str(state.mode), FALSE, state.timers)

\* the state setMode leaves behind when called at `time`
setMode(state, m, time) ==
  IF state.mode = m THEN state
  ELSE ModeState(state.mode, Str(state.mode), TRUE,
                 Append(state.timers,
                        [mode |-> m, due |-> time + TRANSITION_MS]))

\* the mode toggleMode asks for
ToggledMode(state) == IF state.mode = "formula" THEN "proof" ELSE "formula"

toggleMode(state, time) == setMode(state, ToggledMode(state), time)

\* the callback of the oldest timer runs
TimerCallback(state) ==
  ModeState(Head(state.timers).mode, state.previousMode, FALSE,
            Tail(state.timers))

(***************************************************************************)
(* The rewrite store: useRewriteStore (src/unnamed/part_002).  A Map from  *)
(* rule id to rule is the sequence of its values in insertion order.       *)
(***************************************************************************)
RewriteRule(id, rewrite, priority, category) ==
  [t |-> "object", id |-> id, rewrite |-> rewrite, priority |-> priority,
   category |-> category]

\* the string `axiom-${id}`
AxiomRuleId(id) == [t |-> "string", axiom |-> id]

RewriteState(rules, index, ruleCollections) ==
  [availableRules |-> rules, ruleIndex |-> index,
   collections |-> ruleCollections]

\* index.has(id)
IndexHas(index, id) == \E i \in 1..Len(index) : index[i].id = id

\* index.set(rule.id, rule)
IndexSet(index, rule) ==
  IF IndexHas(index, rule.id)
    THEN [i \in 1..Len(index) |->
            IF index[i].id = rule.id THEN rule ELSE index[i]]
    ELSE Append(index, rule)

\* index.delete(id)
IndexDelete(index, id) ==
  LET HasOtherId(rule) == rule.id # id
  IN SelectSeq(index, HasOtherId)

\* index.get(id)
IndexGet(index, id) ==
  IF IndexHas(index, id)
    THEN index[CHOOSE i \in 1..Len(index) : index[i].id = id]
    ELSE Undefined

\* rules.forEach(rule => index.set(rule.id, rule)), from rule i on
RECURSIVE IndexSetAllFrom(_, _, _)
IndexSetAllFrom(index, rules, i) ==
  IF i > Len(rules) THEN index
  ELSE IndexSetAllFrom(IndexSet(index, rules[i]), rules, i + 1)

addRewriteRule(state, id, rewrite, priority) ==
  IF ~isValidRewrite(rewrite)
    THEN [outcome |-> Throw("Error", "Invalid rewrite rule"), state |-> state]
    ELSE [outcome |-> Return(Undefined),
          state |->
            RewriteState(
              Append(IndexDelete(state.availableRules, id),
                     RewriteRule(id, rewrite, priority, Str("user"))),
              IndexSet(state.ruleIndex,
                       RewriteRule(id, rewrite, priority, Str("user"))),
              state.collections)]

removeRewriteRule(state, id) ==
  RewriteState(IndexDelete(state.availableRules, id),
               IndexDelete(state.ruleIndex, id), state.collections)

clearAllRewrites(state) == RewriteState(<<>>, <<>>, <<>>)

\* the validRules the loop of batchAddRules collects, from entry i on; an
\* entry without priority gets priority 0
RECURSIVE ValidRulesFrom(_, _)
ValidRulesFrom(rules, i) ==
  IF i > Len(rules) THEN <<>>
  ELSE (IF isValidRewrite(rules[i].rewrite)
          THEN <<RewriteRule(rules[i].id, rules[i].rewrite,
                             IF rules[i].priority = Undefined THEN Num(0)
                             ELSE rules[i].priority,
                             Str("user"))>>
          ELSE <<>>)
       \o ValidRulesFrom(rules, i + 1)

batchAddRules(state, rules) ==
  RewriteState(state.availableRules \o ValidRulesFrom(rules, 1),
               IndexSetAllFrom(state.ruleIndex, ValidRulesFrom(rules, 1), 1),
               state.collections)

findRuleById(state, id) == IndexGet(state.ruleIndex, id)

getAllNPRAxioms == getAllAxioms(defaultRegistry)

\* the rules loadNPRAxioms makes of the axioms, from axiom i on
RECURSIVE AxiomRulesFrom(_, _)
AxiomRulesFrom(axioms, i) ==
  IF i > Len(axioms) THEN <<>>
  ELSE <<RewriteRule(AxiomRuleId(axioms[i].id), RewriteI, Num(100),
                     Str("axiom"))>>
       \o AxiomRulesFrom(axioms, i + 1)

loadNPRAxioms(state) ==
  RewriteState(state.availableRules \o AxiomRulesFrom(getAllNPRAxioms, 1),
               IndexSetAllFrom(state.ruleIndex,
                               AxiomRulesFrom(getAllNPRAxioms, 1), 1),
               state.collections)

\* the rules createRuleCollection makes of the rewrites, from rewrite i on
RECURSIVE CollectionRulesFrom(_, _, _)
CollectionRulesFrom(id, rewrites, i) ==
  IF i > Len(rewrites) THEN <<>>
  ELSE <<[t |-> "object", id |-> [t |-> "string", collection |-> id,
                                  index |-> i - 1],
          rewrite |-> rewrites[i], category |-> Str("derived")]>>
       \o CollectionRulesFrom(id, rewrites, i + 1)

createRuleCollection(state, id, rewrites) ==
  RewriteState(state.availableRules, state.ruleIndex,
               IndexSet(state.collections,
                        [t |-> "object", id |-> id, name |-> id,
                         rules |-> CollectionRulesFrom(id, rewrites, 1)]))

\* JSON.stringify of a value of the model: the text that parses back to it
JSONStringify(value) == [t |-> "string", json |-> value]

\* JSON.parse: a text that is not JSON raises SyntaxError
JSONParse(data) ==
  IF data.t = "string" /\ "json" \in DOMAIN data THEN Return(data.json)
  ELSE Throw("SyntaxError", "Unexpected token")

exportRules(state) ==
  JSONStringify([t |-> "object", version |-> Str("1.0"),
                 rules |-> Arr(state.availableRules)])

\* parsed.rules.filter(rule => rule.id && rule.rewrite &&
\* isValidRewrite(rule.rewrite)), from entry i on
RECURSIVE ImportedRulesFrom(_, _)
ImportedRulesFrom(rules, i) ==
  IF i > Len(rules) THEN <<>>
  ELSE (IF /\ ~Falsy(rules[i].id)
           /\ ~Falsy(rules[i].rewrite)
           /\ isValidRewrite(rules[i].rewrite)
          THEN <<rules[i]>>
          ELSE <<>>)
       \o ImportedRulesFrom(rules, i + 1)

\* importRules once JSON.parse has come back with parsed; its error is
\* caught and logged
ImportParsed(state, parsed) ==
  IF Raised(parsed) THEN state
  ELSE IF /\ parsed.value.t = "object"
          /\ parsed.value.version = Str("1.0")
          /\ IsArray(parsed.value.rules)
    THEN RewriteState(
           state.availableRules \o ImportedRulesFrom(parsed.value.rules.a, 1),
           IndexSetAllFrom(state.ruleIndex,
                           ImportedRulesFrom(parsed.value.rules.a, 1), 1),
           state.collections)
  ELSE state

importRules(state, data) == ImportParsed(state, JSONParse(data))

(***************************************************************************)
(* Binary format: src/src/serialization/binary-format.ts.  A Uint8Array    *)
(* is the sequence of its bytes; positions of a reader count from 0.       *)
(***************************************************************************)
BINARY_FORMAT_VERSION == 1

MAGIC_BYTES == <<78, 80, 82, 1>>

TypeCode ==
  [GENERATOR |-> 16, DIAGRAM_0D |-> 32, DIAGRAM_ND |-> 33,
   REWRITE_0D |-> 48, REWRITE_1D_IDENTITY |-> 49, REWRITE_ND |-> 50,
   COSPAN |-> 64, CONE |-> 80, STRING_SHORT |-> 96, STRING_LONG |-> 97,
   ARRAY_EMPTY |-> 112, ARRAY_SHORT |-> 113, ARRAY_LONG |-> 114]

ColorCode == [NONE |-> 0, CARTESIAN |-> 1, COCARTESIAN |-> 2]

FormatFlags == [NONE |-> 0, COMPRESSED |-> 1, CHECKSUMMED |-> 2]

\* the UTF-8 bytes of the strings of the model
Utf8 ==
  [text \in {"", "a", "b", "c", "d", "A", "B", "D", "X", "eps", "empty",
              "Invalid"} |->
     CASE text = "" -> <<>>
       [] text = "a" -> <<97>>
       [] text = "b" -> <<98>>
       [] text = "c" -> <<99>>
       [] text = "d" -> <<100>>
       [] text = "A" -> <<65>>
       [] text = "B" -> <<66>>
       [] text = "D" -> <<68>>
       [] text = "X" -> <<88>>
       [] text = "eps" -> <<206, 181>>
       [] text = "empty" -> <<101, 109, 112, 116, 121>>
       [] text = "Invalid" -> <<73, 110, 118, 97, 108, 105, 100>>]

\* new TextEncoder().encode(str): undefined encodes as the empty string
TextEncode(str) == IF str.t = "string" THEN Utf8[str.s] ELSE <<>>

\* new TextDecoder().decode(bytes): bytes that are not the encoding of a
\* string of the model decode to the replacement character
TextDecode(bytes) ==
  IF \E text \in DOMAIN Utf8 : Utf8[text] = bytes
    THEN Str(CHOOSE text \in DOMAIN Utf8 : Utf8[text] = bytes)
    ELSE Str("\\uFFFD")

\* ToInt32 of a value of the model; undefined converts to 0
ToInt32(x) == IF x.t = "number" THEN x.n ELSE 0

\* value & 0xFF
LowByte(k) == k % 256

writeByte(k) == <<LowByte(k)>>

writeUint32(k) ==
  <<LowByte(k), LowByte(k \div 256), LowByte(k \div 65536),
    LowByte(k \div 16777216)>>

writeString(str) ==
  (IF Len(TextEncode(str)) <= 255
     THEN writeByte(TypeCode.STRING_SHORT) \o writeByte(Len(TextEncode(str)))
     ELSE writeByte(TypeCode.STRING_LONG)
          \o writeUint32(Len(TextEncode(str))))
  \o TextEncode(str)

writeArrayLength(length) ==
  IF length = 0 THEN writeByte(TypeCode.ARRAY_EMPTY)
  ELSE IF length <= 255
    THEN writeByte(TypeCode.ARRAY_SHORT) \o writeByte(length)
  ELSE writeByte(TypeCode.ARRAY_LONG) \o writeUint32(length)

createBinaryHeader(dataSize, flags) ==
  MAGIC_BYTES \o <<BINARY_FORMAT_VERSION, flags>> \o writeUint32(dataSize)

(***************************************************************************)
(* Encoder: src/src/serialization/encoder.ts.  An encoder returns the      *)
(* bytes it wrote or the error it threw.                                   *)
(***************************************************************************)
\* a Uint8Array as a value of the model
Uint8Array(bytes) == [t |-> "Uint8Array", bytes |-> bytes]

\* obj.name, undefined for a property the object does not have
Get(obj, name) == IF name \in DOMAIN obj THEN obj[name] ELSE Undefined

\* name in obj: an absent property is written as undefined in the model
In(name, obj) == Get(obj, name) # Undefined

\* writer.writeBytes(data) after the bytes written so far
WriteBytes(written, data) ==
  IF Raised(data) THEN data ELSE Return(written \o data.value)

\* writer.writeUint32(data.length); writer.writeBytes(data)
WriteSized(written, data) ==
  IF Raised(data) THEN data
  ELSE Return(written \o writeUint32(Len(data.value)) \o data.value)

encodeGenerator(generator) ==
  IF Falsy(generator)
    THEN Throw("Error", "Generator cannot be null or undefined")
  ELSE Return(
         writeByte(TypeCode.GENERATOR)
         \o writeString(Get(generator, "id"))
         \o (IF Get(generator, "label") # Undefined
               THEN writeByte(1) \o writeString(Get(generator, "label"))
               ELSE writeByte(0))
         \o (IF Get(generator, "color") = Str("cartesian")
               THEN writeByte(ColorCode.CARTESIAN)
             ELSE IF Get(generator, "color") = Str("cocartesian")
               THEN writeByte(ColorCode.COCARTESIAN)
             ELSE writeByte(ColorCode.NONE)))

RECURSIVE encodeDiagram(_)
RECURSIVE encodeRewrite(_)
RECURSIVE encodeCospan(_)
RECURSIVE encodeCone(_)
RECURSIVE EncodeEachFrom(_, _, _, _)

\* the encoder of values of `kind`
EncodeItem(kind, item) ==
  CASE kind = "cospan" -> encodeCospan(item)
    [] kind = "rewrite" -> encodeRewrite(item)
    [] kind = "cone" -> encodeCone(item)
    [] kind = "diagram" -> encodeDiagram(item)
    [] kind = "generator" -> encodeGenerator(item)

\* the loop `for (const item of items)` of an encoder from item i on, after
\* the bytes written so far: each item is written with its size
EncodeEachFrom(written, kind, items, i) ==
  IF Raised(written) THEN written
  ELSE IF i > Len(items) THEN written
  ELSE EncodeEachFrom(WriteSized(written.value, EncodeItem(kind, items[i])),
                      kind, items, i + 1)

\* writeArrayLength(items.length) and the loop over items, after the bytes
\* written so far; reading the length of undefined raises
WriteArray(written, kind, items) ==
  IF Raised(written) THEN written
  ELSE IF ~IsArray(items) THEN TypeErrorOn(items)
  ELSE EncodeEachFrom(Return(written.value \o writeArrayLength(Len(items.a))),
                      kind, items.a, 1)

encodeDiagram(diagram) ==
  IF Falsy(diagram) THEN Throw("Error", "Diagram cannot be null or undefined")
  ELSE IF Get(diagram, "dimension").t = "number"
          /\ Get(diagram, "dimension").n < 0
    THEN Throw("Error", "Diagram dimension cannot be negative")
  ELSE IF Get(diagram, "dimension") = Num(0)
    THEN WriteBytes(writeByte(TypeCode.DIAGRAM_0D) \o writeByte(0),
                    encodeGenerator(Get(diagram, "generator")))
  ELSE WriteArray(
         WriteSized(writeByte(TypeCode.DIAGRAM_ND)
                    \o writeByte(ToInt32(Get(diagram, "dimension"))),
                    encodeDiagram(Get(diagram, "source"))),
         "cospan", Get(diagram, "cospans"))

encodeRewrite(rewrite) ==
  IF Falsy(rewrite) THEN Throw("Error", "Rewrite cannot be null or undefined")
  ELSE IF Get(rewrite, "dimension").t = "number"
          /\ Get(rewrite, "dimension").n < 0
    THEN Throw("Error", "Rewrite dimension cannot be negative")
  ELSE IF Get(rewrite, "dimension") = Num(0)
    THEN LET sourceData ==
               WriteSized(writeByte(TypeCode.REWRITE_0D) \o writeByte(0),
                          encodeGenerator(Get(rewrite, "source")))
         IN IF Raised(sourceData) THEN sourceData
            ELSE WriteSized(sourceData.value,
                            encodeGenerator(Get(rewrite, "target")))
  ELSE IF Get(rewrite, "dimension") = Num(1) /\ In("identity", rewrite)
    THEN Return(writeByte(TypeCode.REWRITE_1D_IDENTITY) \o writeByte(1)
                \o writeByte(IF Falsy(Get(rewrite, "identity")) THEN 0
                             ELSE 1))
  ELSE WriteArray(
         Return(writeByte(TypeCode.REWRITE_ND)
                \o writeByte(ToInt32(Get(rewrite, "dimension")))),
         "cone", Get(rewrite, "cones"))

\* the backward rewrite of a cospan, written after the forward one
WriteBackward(written, cospan) ==
  IF Raised(written) THEN written
  ELSE WriteSized(written.value, encodeRewrite(Get(cospan, "backward")))

encodeCospan(cospan) ==
  IF Falsy(cospan) THEN Throw("Error", "Cospan cannot be null or undefined")
  ELSE WriteBackward(WriteSized(writeByte(TypeCode.COSPAN),
                                encodeRewrite(Get(cospan, "forward"))),
                     cospan)

\* the target cospan of a cone, written after its source cospans
WriteTarget(written, cone) ==
  IF Raised(written) THEN written
  ELSE WriteSized(written.value, encodeCospan(Get(cone, "target")))

encodeCone(cone) ==
  IF Falsy(cone) THEN Throw("Error", "Cone cannot be null or undefined")
  ELSE WriteArray(
         WriteTarget(
           WriteArray(Return(writeByte(TypeCode.CONE)
                             \o writeUint32(ToInt32(Get(cone, "index")))),
                      "cospan", Get(cone, "source")),
           cone),
         "rewrite", Get(cone, "slices"))

\* the encoder the chain of `in` tests of encodeWithHeader picks for data
EncoderOf(data) ==
  IF In("generator", data) \/ In("dimension", data) THEN "diagram"
  ELSE IF In("source", data) /\ In("target", data) /\ ~In("cones", data)
    THEN "rewrite"
  ELSE IF In("identity", data) THEN "rewrite"
  ELSE IF In("cones", data) THEN "rewrite"
  ELSE IF In("forward", data) /\ In("backward", data) THEN "cospan"
  ELSE IF In("index", data) /\ In("source", data) /\ In("target", data)
          /\ In("slices", data)
    THEN "cone"
  ELSE "generator"

\* the header and the encoded data, combined
WithHeader(encodedData) ==
  IF Raised(encodedData) THEN encodedData
  ELSE Return(Uint8Array(createBinaryHeader(Len(encodedData.value),
                                            FormatFlags.NONE)
                         \o encodedData.value))

encodeWithHeader(data) ==
  IF data.t \in {"null", "undefined"} THEN TypeErrorOn(data)
  ELSE WithHeader(EncodeItem(EncoderOf(data), data))

(***************************************************************************)
(* BinaryReader of src/src/serialization/binary-format.ts: a read at       *)
(* `position` of `data` gives the value read and the position after it, or *)
(* the error it threw.                                                     *)
(***************************************************************************)
ReadOk(value, position) ==
  [ok |-> TRUE, value |-> value, position |-> position]

ReadError(message, details) ==
  [ok |-> FALSE, message |-> message, details |-> details]

readByte(data, position) ==
  IF position >= Len(data) THEN ReadError("Unexpected end of data", <<>>)
  ELSE ReadOk(data[position + 1], position + 1)

readBytes(data, position, length) ==
  IF position + length > Len(data)
    THEN ReadError("Unexpected end of data", <<>>)
  ELSE ReadOk(SubSeq(data, position + 1, position + length),
              position + length)

\* b1 | (b2 << 8) | (b3 << 16) | (b4 << 24), a signed 32-bit integer
readUint32(data, position) ==
  IF position + 4 > Len(data) THEN ReadError("Unexpected end of data", <<>>)
  ELSE ReadOk(data[position + 1] + 256 * data[position + 2]
              + 65536 * data[position + 3]
              + 16777216 * (IF data[position + 4] >= 128
                              THEN data[position + 4] - 256
                              ELSE data[position + 4]),
              position + 4)

\* the string of `length` bytes after the length was read
StringOfLength(data, length) ==
  IF ~length.ok THEN length
  ELSE IF length.position + length.value > Len(data)
    THEN ReadError("Unexpected end of data", <<>>)
  ELSE ReadOk(TextDecode(SubSeq(data, length.position + 1,
                                length.position + length.value)),
              length.position + length.value)

\* the string after its type code was read
StringOfType(data, typeCode) ==
  IF ~typeCode.ok THEN typeCode
  ELSE IF typeCode.value = TypeCode.STRING_SHORT
    THEN StringOfLength(data, readByte(data, typeCode.position))
  ELSE IF typeCode.value = TypeCode.STRING_LONG
    THEN StringOfLength(data, readUint32(data, typeCode.position))
  ELSE ReadError("Expected string type code, got ", <<typeCode.value>>)

readString(data, position) == StringOfType(data, readByte(data, position))

\* the array length after its type code was read
ArrayLengthOfType(data, typeCode) ==
  IF ~typeCode.ok THEN typeCode
  ELSE IF typeCode.value = TypeCode.ARRAY_EMPTY
    THEN ReadOk(0, typeCode.position)
  ELSE IF typeCode.value = TypeCode.ARRAY_SHORT
    THEN readByte(data, typeCode.position)
  ELSE IF typeCode.value = TypeCode.ARRAY_LONG
    THEN readUint32(data, typeCode.position)
  ELSE ReadError("Expected array length type code, got ", <<typeCode.value>>)

readArrayLength(data, position) ==
  ArrayLengthOfType(data, readByte(data, position))

\* reader.readBytes(length) after length = reader.readUint32()
BytesOfLength(data, length) ==
  IF ~length.ok THEN length
  ELSE readBytes(data, length.position, length.value)

\* const length = reader.readUint32(); reader.readBytes(length): the bytes
\* of a value written with its size
readSized(data, position) == BytesOfLength(data, readUint32(data, position))

\* a BinaryResult
Success(data, bytesRead) ==
  [success |-> TRUE, data |-> data, bytesRead |-> bytesRead]

Failure(message, details) ==
  [success |-> FALSE, error |-> message, details |-> details]

\* the catch block of a decoder: the result for an error a read threw
Caught(read) == Failure(read.message, read.details)

validateBinaryHeader(data) ==
  IF Len(data) < 10 THEN Failure("Data too short for header", <<>>)
  ELSE IF \E i \in 1..Len(MAGIC_BYTES) : data[i] # MAGIC_BYTES[i]
    THEN Failure("Invalid magic bytes at position ",
                 <<CHOOSE i \in 1..Len(MAGIC_BYTES) :
                     /\ data[i] # MAGIC_BYTES[i]
                     /\ \A j \in 1..(i - 1) : data[j] = MAGIC_BYTES[j]>>)
  ELSE IF data[5] # BINARY_FORMAT_VERSION
    THEN Failure("Unsupported version ", <<data[5], BINARY_FORMAT_VERSION>>)
  ELSE Success([magic |-> SubSeq(data, 1, 4), version |-> data[5],
                flags |-> data[6],
                totalSize |-> readUint32(data, 6).value],
               10)

(***************************************************************************)
(* Decoder: src/unnamed/part_007.  A decoder is handed the bytes of one    *)
(* value and returns a BinaryResult.                                       *)
(***************************************************************************)
GeneratorWith(id, label, colorCode) ==
  IF ~colorCode.ok THEN Caught(colorCode)
  ELSE Success(Generator(id, label,
                         IF colorCode.value = ColorCode.CARTESIAN
                           THEN Str("cartesian")
                         ELSE IF colorCode.value = ColorCode.COCARTESIAN
                           THEN Str("cocartesian")
                         ELSE Undefined),
               colorCode.position)

GeneratorAfterLabel(data, id, label) ==
  IF ~label.ok THEN Caught(label)
  ELSE GeneratorWith(id, label.value, readByte(data, label.position))

GeneratorAfterFlag(data, id, hasLabel) ==
  IF ~hasLabel.ok THEN Caught(hasLabel)
  ELSE IF hasLabel.value = 1
    THEN GeneratorAfterLabel(data, id, readString(data, hasLabel.position))
  ELSE GeneratorAfterLabel(data, id, ReadOk(Undefined, hasLabel.position))

GeneratorAfterId(data, id) ==
  IF ~id.ok THEN Caught(id)
  ELSE GeneratorAfterFlag(data, id.value, readByte(data, id.position))

decodeGenerator(data) ==
  IF Len(data) = 0
    THEN Failure("Empty data cannot be decoded as Generator", <<>>)
  ELSE IF data[1] # TypeCode.GENERATOR
    THEN Failure("Expected Generator type code ",
                 <<TypeCode.GENERATOR, data[1]>>)
  ELSE GeneratorAfterId(data, readString(data, 1))

RECURSIVE decodeDiagram(_)
RECURSIVE decodeRewrite(_)
RECURSIVE decodeCospan(_)
RECURSIVE decodeCone(_)
RECURSIVE DecodeEachFrom(_, _, _, _, _, _)
RECURSIVE NextItem(_, _, _, _, _, _, _)

\* the decoder of the items of an array: the cospans of a diagram or the
\* source of a cone, the cones of a rewrite, the slices of a cone
DecodeItem(kind, data) ==
  CASE kind = "cospan" -> decodeCospan(data)
    [] kind = "cone" -> decodeCone(data)
    [] kind = "rewrite" -> decodeRewrite(data)

\* the item itemData holds, decoded, and the rest of the loop
ItemOf(kind, data, count, i, items, itemData) ==
  IF ~itemData.ok THEN Caught(itemData)
  ELSE NextItem(kind, data, itemData.position, count, i, items,
                DecodeItem(kind, itemData.value))

\* the loop `for (let i = 0; i < count; i++)` of a decoder from item i on:
\* the items decoded and the position after them, or the failure of one
DecodeEachFrom(kind, data, position, count, i, items) ==
  IF i >= count THEN Success(items, position)
  ELSE ItemOf(kind, data, count, i, items, readSized(data, position))

NextItem(kind, data, position, count, i, items, itemResult) ==
  IF ~itemResult.success
    THEN Failure("Failed to decode item", <<kind, i, itemResult.error>>)
  ELSE DecodeEachFrom(kind, data, position, count, i + 1,
                      Append(items, itemResult.data))

\* the items of an array after its length was read
ArrayOfLength(kind, data, count) ==
  IF ~count.ok THEN Caught(count)
  ELSE DecodeEachFrom(kind, data, count.position, count.value, 0, <<>>)

\* the array at `position`: its length and its items
DecodeArray(kind, data, position) ==
  ArrayOfLength(kind, data, readArrayLength(data, position))

Diagram0From(generatorResult) ==
  IF ~generatorResult.success
    THEN Failure("Failed to decode generator: ", <<generatorResult.error>>)
  ELSE Success(Diagram0(generatorResult.data), 2 + generatorResult.bytesRead)

DiagramNWith(dimension, source, cospans) ==
  IF ~cospans.success THEN cospans
  ELSE Success(DiagramN(dimension, source, cospans.data), cospans.bytesRead)

DiagramNFrom(data, dimension, sourceResult, position) ==
  IF ~sourceResult.success
    THEN Failure("Failed to decode source diagram: ", <<sourceResult.error>>)
  ELSE DiagramNWith(dimension, sourceResult.data,
                    DecodeArray("cospan", data, position))

DiagramNSource(data, dimension, sourceData) ==
  IF ~sourceData.ok THEN Caught(sourceData)
  ELSE DiagramNFrom(data, dimension, decodeDiagram(sourceData.value),
                    sourceData.position)

\* the diagram after its type code and its dimension were read
DiagramOfDimension(data, typeCode, dimension) ==
  IF ~dimension.ok THEN Caught(dimension)
  ELSE IF typeCode = TypeCode.DIAGRAM_0D
    THEN IF dimension.value # 0
           THEN Failure("Expected dimension 0 for DIAGRAM_0D, got ",
                        <<dimension.value>>)
         ELSE Diagram0From(decodeGenerator(SubSeq(data, 3, Len(data))))
  ELSE IF dimension.value < 1
    THEN Failure("Invalid dimension for DIAGRAM_ND", <<dimension.value>>)
  ELSE DiagramNSource(data, dimension.value,
                      readSized(data, dimension.position))

decodeDiagram(data) ==
  IF Len(data) = 0
    THEN Failure("Empty data cannot be decoded as Diagram", <<>>)
  ELSE IF data[1] \notin {TypeCode.DIAGRAM_0D, TypeCode.DIAGRAM_ND}
    THEN Failure("Invalid diagram type code: ", <<data[1]>>)
  ELSE DiagramOfDimension(data, data[1], readByte(data, 1))

Rewrite0With(source, targetResult, position) ==
  IF ~targetResult.success
    THEN Failure("Failed to decode target generator: ",
                 <<targetResult.error>>)
  ELSE Success(Rewrite0(source, targetResult.data), position)

Rewrite0Target(source, targetData) ==
  IF ~targetData.ok THEN Caught(targetData)
  ELSE Rewrite0With(source, decodeGenerator(targetData.value),
                    targetData.position)

\* the target generator of a 0-dimensional rewrite, read at `position`
\* after the source generator was decoded
Rewrite0From(data, sourceResult, position) ==
  IF ~sourceResult.success
    THEN Failure("Failed to decode source generator: ",
                 <<sourceResult.error>>)
  ELSE Rewrite0Target(sourceResult.data, readSized(data, position))

Rewrite0Source(data, sourceData) ==
  IF ~sourceData.ok THEN Caught(sourceData)
  ELSE Rewrite0From(data, decodeGenerator(sourceData.value),
                    sourceData.position)

RewriteIWith(identityFlag) ==
  IF ~identityFlag.ok THEN Caught(identityFlag)
  ELSE Success(RewriteObject(Num(1), Undefined, Undefined,
                             Bool(identityFlag.value = 1), Undefined),
               identityFlag.position)

RewriteNWith(dimension, cones) ==
  IF ~cones.success THEN cones
  ELSE Success(RewriteN(dimension, cones.data), cones.bytesRead)

\* the rewrite after its type code and its dimension were read
RewriteOfDimension(data, typeCode, dimension) ==
  IF ~dimension.ok THEN Caught(dimension)
  ELSE IF typeCode = TypeCode.REWRITE_0D
    THEN IF dimension.value # 0
           THEN Failure("Expected dimension 0 for REWRITE_0D, got ",
                        <<dimension.value>>)
         ELSE Rewrite0Source(data, readSized(data, dimension.position))
  ELSE IF typeCode = TypeCode.REWRITE_1D_IDENTITY
    THEN IF dimension.value # 1
           THEN Failure("Expected dimension 1 for REWRITE_1D_IDENTITY, got ",
                        <<dimension.value>>)
         ELSE RewriteIWith(readByte(data, dimension.position))
  ELSE IF dimension.value < 2
    THEN Failure("Invalid dimension for REWRITE_ND", <<dimension.value>>)
  ELSE RewriteNWith(dimension.value,
                    DecodeArray("cone", data, dimension.position))

decodeRewrite(data) ==
  IF Len(data) = 0
    THEN Failure("Empty data cannot be decoded as Rewrite", <<>>)
  ELSE IF data[1] \notin {TypeCode.REWRITE_0D, TypeCode.REWRITE_1D_IDENTITY,
                          TypeCode.REWRITE_ND}
    THEN Failure("Invalid rewrite type code: ", <<data[1]>>)
  ELSE RewriteOfDimension(data, data[1], readByte(data, 1))

\* the two rewrites of a cospan, decoded one after the other from the
\* bytes rewriteData holds; `forward` is the rewrite decoded so far
\* (undefined before the forward rewrite)
RECURSIVE CospanRewrite(_, _, _)
RECURSIVE CospanAfter(_, _, _, _)
CospanRewrite(data, forward, rewriteData) ==
  IF ~rewriteData.ok THEN Caught(rewriteData)
  ELSE CospanAfter(data, forward, decodeRewrite(rewriteData.value),
                   rewriteData.position)

CospanAfter(data, forward, rewriteResult, position) ==
  IF ~rewriteResult.success
    THEN Failure(IF forward = Undefined
                   THEN "Failed to decode forward rewrite: "
                   ELSE "Failed to decode backward rewrite: ",
                 <<rewriteResult.error>>)
  ELSE IF forward = Undefined
    THEN CospanRewrite(data, rewriteResult.data, readSized(data, position))
  ELSE Success(Cospan(forward, rewriteResult.data), position)

decodeCospan(data) ==
  IF Len(data) = 0 THEN Failure("Unexpected end of data", <<>>)
  ELSE IF data[1] # TypeCode.COSPAN
    THEN Failure("Expected Cospan type code ", <<TypeCode.COSPAN, data[1]>>)
  ELSE CospanRewrite(data, Undefined, readSized(data, 1))

ConeWith(index, source, target, slices) ==
  IF ~slices.success THEN slices
  ELSE Success(Cone(index, source, target, slices.data), slices.bytesRead)

ConeAfterTarget(data, index, source, targetResult, position) ==
  IF ~targetResult.success
    THEN Failure("Failed to decode target cospan: ", <<targetResult.error>>)
  ELSE ConeWith(index, source, targetResult.data,
                DecodeArray("rewrite", data, position))

ConeTarget(data, index, source, targetData) ==
  IF ~targetData.ok THEN Caught(targetData)
  ELSE ConeAfterTarget(data, index, source, decodeCospan(targetData.value),
                       targetData.position)

\* the target cospan of a cone, read after its source cospans
ConeAfterSource(data, index, source) ==
  IF ~source.success THEN source
  ELSE ConeTarget(data, index, source.data, readSized(data, source.bytesRead))

ConeOfIndex(data, index) ==
  IF ~index.ok THEN Caught(index)
  ELSE ConeAfterSource(data, index.value,
                       DecodeArray("cospan", data, index.position))

decodeCone(data) ==
  IF Len(data) = 0 THEN Failure("Unexpected end of data", <<>>)
  ELSE IF data[1] # TypeCode.CONE
    THEN Failure("Expected Cone type code ", <<TypeCode.CONE, data[1]>>)
  ELSE ConeOfIndex(data, readUint32(data, 1))

\* the decoder decodeWithHeader picks from the first byte of the payload
DecodePayload(payload) ==
  IF Len(payload) = 0 THEN Failure("No payload data after header", <<>>)
  ELSE IF payload[1] = TypeCode.GENERATOR THEN decodeGenerator(payload)
  ELSE IF payload[1] \in {TypeCode.DIAGRAM_0D, TypeCode.DIAGRAM_ND}
    THEN decodeDiagram(payload)
  ELSE IF payload[1] \in {TypeCode.REWRITE_0D, TypeCode.REWRITE_1D_IDENTITY,
                          TypeCode.REWRITE_ND}
    THEN decodeRewrite(payload)
  ELSE IF payload[1] = TypeCode.COSPAN THEN decodeCospan(payload)
  ELSE IF payload[1] = TypeCode.CONE THEN decodeCone(payload)
  ELSE Failure("Unknown data type code: ", <<payload[1]>>)

\* the result of decodeWithHeader after the header was validated
PayloadAfterHeader(bytes, headerResult) ==
  IF ~headerResult.success
    THEN Failure(headerResult.error, headerResult.details)
  ELSE DecodePayload(SubSeq(bytes, headerResult.bytesRead + 1, Len(bytes)))

decodeWithHeader(data) ==
  IF Falsy(data) THEN Failure("Data cannot be null or undefined", <<>>)
  ELSE PayloadAfterHeader(data.bytes, validateBinaryHeader(data.bytes))

(***************************************************************************)
(* Inputs.                                                                 *)
(***************************************************************************)
GA == Generator(Str("a"), Str("A"), Undefined)
GB == Generator(Str("b"), Str("B"), Undefined)
GC == Generator(Str("c"), Undefined, Str("cartesian"))
GEmptyX == Generator(Str("empty"), Str("X"), Undefined)
GD == Generator(Str("d"), Str("D"), Str("cocartesian"))
GNoId == Generator(Str(""), Str("Invalid"), Undefined)

RAB == createGeneratorRewrite(GA, GB)
RBA == createGeneratorRewrite(GB, GA)
RBC == createGeneratorRewrite(GB, GC)
RCA == createGeneratorRewrite(GC, GA)
RAA == createGeneratorRewrite(GA, GA)
RHigh == RewriteN(2, <<>>)
RExtra == RewriteObject(Num(2), Undefined, Undefined, Bool(TRUE), Arr(<<>>))
RCone ==
  RewriteN(3, <<Cone(0, <<Cospan(RewriteI, RewriteI)>>, Cospan(RAB, RBA),
                     <<RewriteI, RAB>>)>>)
\* dimension 1 without the identity marker: not a valid rewrite
RNoMarker == RewriteObject(Num(1), Undefined, Undefined, Undefined, Undefined)

ValidRewrites == {RAB, RBA, RBC, RCA, RAA, RewriteI, RHigh, RCone}

Rewrites == ValidRewrites \cup {RNoMarker}

SeqsUpTo(S, k) == UNION {[1..m -> S] : m \in 0..k}

RewriteLists == SeqsUpTo(Rewrites, MaxList)

CId == Cospan(RewriteI, RewriteI)
CAB == Cospan(RAB, RBA)
CHigh == Cospan(RHigh, RewriteI)
CExtra == Cospan(RExtra, RAB)
CCone == Cospan(RCone, RAB)
CHalf == Cospan(RewriteI, Undefined)

CospanValues == {CId, CAB, CHigh, CExtra, CCone, CHalf, Null}

CospanLists == SeqsUpTo(CospanValues, MaxCospans)

Diagrams0 ==
  {createGeneratorDiagram(g) : g \in {GA, GB, GC, GEmptyX}}
  \cup {createEmptyDiagram}

Diagrams1 ==
  {DiagramN(k, s, cs) :
     k \in 1..MaxDim,
     s \in {createGeneratorDiagram(GA), createEmptyDiagram},
     cs \in CospanLists}

Diagrams2 ==
  {DiagramN(2, DiagramN(1, createGeneratorDiagram(GB), inner), outer) :
     inner \in {<<>>, <<CId>>, <<CAB, CId>>},
     outer \in {<<>>, <<CId>>, <<CHigh>>, <<CId, CAB>>}}

\* values carrying both shapes at once
MixedDiagrams ==
  {DiagramObject(Num(0), GA, createGeneratorDiagram(GB), Arr(<<>>)),
   DiagramObject(Num(1), GA, createGeneratorDiagram(GA), Arr(<<CId>>))}

MalformedDiagrams ==
  {Null, Undefined,
   createGeneratorDiagram(GNoId),
   DiagramObject(Num(-1), Null, Undefined, Undefined),
   DiagramObject(Str("invalid"), Undefined, Null, Undefined),
   DiagramObject(Num(1), Undefined, createGeneratorDiagram(GA), Undefined),
   DiagramN(2, createGeneratorDiagram(GNoId), <<CAB>>)}

\* diagrams whose source chain leads back to the diagram itself
SelfLoop == DiagramN(1, RootRef, <<>>)
TwoCycle == DiagramN(2, DiagramN(1, RootRef, <<CAB>>), <<>>)

CyclicDiagrams ==
  {SelfLoop, TwoCycle,
   DiagramObject(Num(1), Undefined, RootRef, Undefined),
   DiagramObject(Num(-1), Undefined, RootRef, Arr(<<>>)),
   DiagramObject(Num(0), GA, RootRef, Undefined)}

\* diagrams over generators with a polarity; the last one has no cospans
\* property
ColoredDiagrams ==
  {createGeneratorDiagram(GD),
   DiagramN(1, createGeneratorDiagram(GC), <<CAB>>),
   DiagramN(1, createGeneratorDiagram(GD), <<>>),
   DiagramN(2, DiagramN(1, createGeneratorDiagram(GD), <<CId>>), <<>>),
   DiagramN(3, DiagramN(1, createGeneratorDiagram(GC), <<>>), <<>>),
   DiagramObject(Num(1), Undefined, createGeneratorDiagram(GC), Undefined)}

Diagrams ==
  Diagrams0 \cup Diagrams1 \cup Diagrams2 \cup MixedDiagrams
  \cup MalformedDiagrams \cup CyclicDiagrams \cup ColoredDiagrams

\* the axioms a caller defines; two of them share an id
AxiomPool ==
  {NPRAxiom("test-structural", "structural", "returnsNothing"),
   NPRAxiom("test-cartesian", "cartesian", "throwsError"),
   NPRAxiom("test-cocartesian", "cocartesian", "returnsFindings"),
   NPRAxiom("test-structural", "cartesian", "throwsValue"),
   nprInverseAxiom}

AxiomIds == {axiom.id : axiom \in AxiomPool} \cup {"unknown"}

AxiomLists == SeqsUpTo(AxiomPool, MaxAxioms)

\* the contents an AxiomRegistry can have: no id twice
Registries ==
  {axioms \in AxiomLists :
     \A i, j \in 1..Len(axioms) : axioms[i].id = axioms[j].id => i = j}
  \cup {defaultRegistry}

\* the diagrams handed to the axiom operations
AxiomDiagrams ==
  {createGeneratorDiagram(GA), createGeneratorDiagram(GC),
   createGeneratorDiagram(GD),
   DiagramN(1, createGeneratorDiagram(GA), <<CId>>),
   DiagramN(1, createGeneratorDiagram(GC), <<CAB>>),
   DiagramN(2, DiagramN(1, createGeneratorDiagram(GD), <<CId>>), <<>>),
   Null, createGeneratorDiagram(GNoId),
   DiagramObject(Num(0), Undefined, Undefined, Undefined), SelfLoop}

\* the second operand of the two-argument operations
FewDiagrams ==
  {createEmptyDiagram, createGeneratorDiagram(GA),
   createGeneratorDiagram(GEmptyX), Null,
   createGeneratorDiagram(GNoId), SelfLoop}
  \cup {DiagramN(k, createGeneratorDiagram(GB), <<CAB>>) : k \in 1..MaxDim}

DiagramPairs == (Diagrams \X FewDiagrams) \cup (FewDiagrams \X Diagrams)

\* the operands of a composition of three diagrams: all structurally valid
TripleDiagrams ==
  {createEmptyDiagram, createGeneratorDiagram(GA), createGeneratorDiagram(GB),
   createGeneratorDiagram(GC),
   DiagramN(1, createGeneratorDiagram(GA), <<CAB>>),
   DiagramN(1, createGeneratorDiagram(GB), <<CId>>),
   DiagramN(2, DiagramN(1, createGeneratorDiagram(GB), <<CId>>), <<CAB>>)}
  \cup {DiagramN(MaxDim, createGeneratorDiagram(GA), <<>>)}

DiagramTriples == TripleDiagrams \X TripleDiagrams \X TripleDiagrams

\* the values handed to encodeWithHeader, each with the type the caller
\* holds it at; the last of each type is not a valid value of the type
SerializableValues ==
  [Generator |-> {GA, GC, GD, GNoId},
   Diagram |->
     {createEmptyDiagram, createGeneratorDiagram(GC),
      DiagramN(2, createGeneratorDiagram(GA), <<>>),
      DiagramN(1, createGeneratorDiagram(GB), <<CAB, CId>>),
      DiagramN(2, DiagramN(1, createGeneratorDiagram(GD), <<CCone>>), <<CId>>),
      DiagramObject(Num(1), Undefined, createGeneratorDiagram(GA), Undefined)},
   Rewrite |-> {RAB, RewriteI, RHigh, RCone, RNoMarker},
   Cospan |-> {CId, CAB, CCone, CHalf},
   Cone |->
     {Cone(0, <<CId>>, CAB, <<RewriteI, RAB>>), Cone(1, <<>>, CId, <<>>),
      Cone(0, <<>>, CHalf, <<>>)}]

SerializableTypes == DOMAIN SerializableValues

\* the type guard of the type the caller holds the value at
IsValidSerializable(type, value) ==
  CASE type = "Generator" -> isValidGenerator(value)
    [] type = "Diagram" -> Valid(value)
    [] type = "Rewrite" -> isValidRewrite(value)
    [] type = "Cospan" -> isValidCospan(value)
    [] type = "Cone" -> isValidCone(value)

\* the bytes handed to decodeWithHeader: what encodeWithHeader returned,
\* values of each type encoded by their own encoder behind a header, the
\* same with the last byte missing or with another first byte, and null
EncodedValues ==
  {encodeWithHeader(value) :
     value \in UNION {SerializableValues[type] : type \in SerializableTypes}}
  \cup UNION {{WithHeader(EncodeItem(own.encoder, value)) :
                  value \in SerializableValues[own.type]} :
                own \in {[type |-> "Rewrite", encoder |-> "rewrite"],
                         [type |-> "Cone", encoder |-> "cone"]}}

WellFormedBytes ==
  {encoded.value.bytes :
     encoded \in {outcome \in EncodedValues : Returned(outcome)}}

Damaged(damage, bytes) ==
  CASE damage = "none" -> bytes
    [] damage = "truncated" -> SubSeq(bytes, 1, Len(bytes) - 1)
    [] damage = "other magic" -> <<0>> \o Tail(bytes)

EncodedInputs ==
  {Uint8Array(Damaged(damage, bytes)) :
     damage \in {"none", "truncated", "other magic"},
     bytes \in WellFormedBytes}
  \cup {Uint8Array(createBinaryHeader(0, FormatFlags.NONE)),
        Uint8Array(createBinaryHeader(1, FormatFlags.NONE) \o <<255>>),
        Uint8Array(<<>>), Null}

\* the source chain of d, followed through the nodes that have a source
\* (dimension 1 and up), comes back to d
RECURSIVE SourceChainCyclic(_)
SourceChainCyclic(d) ==
  IF d.t = "ref" THEN TRUE
  ELSE IF d.t # "object" THEN FALSE
  ELSE IF d.dimension.t # "number" THEN FALSE
  ELSE IF d.dimension.n < 1 THEN FALSE
  ELSE SourceChainCyclic(d.source)

\* d is structurally valid and so is every cospan on its source chain
RECURSIVE ValidWithValidCospans(_)
ValidWithValidCospans(d) ==
  /\ Valid(d)
  /\ d.dimension.n > 0 =>
       /\ (\A i \in 1..Len(d.cospans.a) : isValidCospan(d.cospans.a[i]))
       /\ ValidWithValidCospans(d.source)

(***************************************************************************)
(* The engine as a state machine.  The engine keeps no state of its own:   *)
(* a behaviour is one call.  args holds the arguments the caller hands     *)
(* over, op the entry point that was called ("none" before the call) and   *)
(* result the outcome of the call.                                         *)
(***************************************************************************)
OneDiagram(d) == [shape |-> "diagram", diagram |-> d]
TwoDiagrams(l, r) == [shape |-> "diagrams", left |-> l, right |-> r]
ThreeDiagrams(a, b, c) ==
  [shape |-> "diagram triple", first |-> a, second |-> b, third |-> c]
Serializable(type, value) ==
  [shape |-> "serializable", type |-> type, value |-> value]
Encoded(data) == [shape |-> "encoded", data |-> data]
TwoRewrites(l, r) == [shape |-> "rewrite pair", left |-> l, right |-> r]
RewriteList(l) == [shape |-> "rewrite list", rewrites |-> l]
DiagramAndRegistry(d, r) ==
  [shape |-> "diagram and registry", diagram |-> d, registry |-> r]
AxiomsAndDiagram(a, d) ==
  [shape |-> "axioms and diagram", axioms |-> a, diagram |-> d]
\* the caller creates an AxiomRegistry and goes on to call its methods
RegistrySession == [shape |-> "registry session"]

Inputs ==
  {OneDiagram(d) : d \in Diagrams}
  \cup {TwoDiagrams(p[1], p[2]) : p \in DiagramPairs}
  \cup {ThreeDiagrams(t[1], t[2], t[3]) : t \in DiagramTriples}
  \cup UNION {{Serializable(type, value) :
                  value \in SerializableValues[type]} :
                type \in SerializableTypes}
  \cup {Encoded(data) : data \in EncodedInputs}
  \cup {TwoRewrites(l, r) : l \in Rewrites, r \in Rewrites}
  \cup {RewriteList(l) : l \in RewriteLists}
  \cup {DiagramAndRegistry(d, r) : d \in AxiomDiagrams, r \in Registries}
  \cup {AxiomsAndDiagram(a, d) : a \in AxiomLists, d \in AxiomDiagrams}
  \cup {RegistrySession}

\* registryAxioms is the Map of the AxiomRegistry of a registry session, empty
\* after construction, and calls the calls made on it so far
\* the stores after construction
StoresInit ==
  /\ currentDiagram = createEmptyStoreDiagram
  /\ history = <<>>
  /\ mode = "formula"
  /\ previousMode = Null
  /\ transitioning = FALSE
  /\ timers = <<>>
  /\ now = 0
  /\ availableRules = <<>>
  /\ ruleIndex = <<>>
  /\ collections = <<>>

Init ==
  /\ op = "none"
  /\ args \in Inputs
  /\ result = Return(Undefined)
  /\ registryAxioms = <<>>
  /\ calls = <<>>
  /\ StoresInit

Call(shape, name, outcome) ==
  /\ op = "none"
  /\ args.shape = shape
  /\ op' = name
  /\ result' = outcome
  /\ UNCHANGED <<args, registryAxioms, calls>>
  /\ UNCHANGED <<diagramStoreVars, modeStoreVars, rewriteStoreVars>>

IsValidDiagramCall ==
  Call("diagram", "isValidDiagram", isValidDiagram(args.diagram))

NormalizeDiagramCall ==
  Call("diagram", "normalizeDiagram", normalizeDiagram(args.diagram))

IsNormalFormCall ==
  Call("diagram", "isNormalForm", isNormalForm(args.diagram))

ComposeDiagramsCall ==
  Call("diagrams", "composeDiagrams", composeDiagrams(args.left, args.right))

GetCompositionTypeCall ==
  Call("diagrams", "getCompositionType",
       getCompositionType(args.left, args.right))

IsComposableCall ==
  Call("diagrams", "isComposable", isComposable(args.left, args.right))

ComposeThreeCall ==
  \E grouping \in {"left first", "right first"} :
    Call("diagram triple", "composeDiagrams " \o grouping,
         ComposeThree(grouping, args.first, args.second, args.third))

EncodeWithHeaderCall ==
  Call("serializable", "encodeWithHeader", encodeWithHeader(args.value))

DecodeWithHeaderCall ==
  Call("encoded", "decodeWithHeader", Return(decodeWithHeader(args.data)))

ComposeRewritesCall ==
  Call("rewrite pair", "composeRewrites",
       composeRewrites(args.left, args.right))

ComposeSequentiallyCall ==
  Call("rewrite list", "composeSequentially",
       composeSequentially(args.rewrites))

PerformColimitContractionCall ==
  Call("rewrite list", "performColimitContraction",
       performColimitContraction(args.rewrites))

ReduceTermsCall ==
  Call("rewrite list", "reduceTerms", reduceTerms(args.rewrites))

FindContractiblePartsCall ==
  Call("diagram", "findContractibleParts",
       findContractibleParts(args.diagram))

CheckTypeConsistencyCall ==
  Call("diagram", "checkTypeConsistency", checkTypeConsistency(args.diagram))

IsCartesianDiagramCall ==
  Call("diagram", "isCartesianDiagram", isCartesianDiagram(args.diagram))

IsCocartesianDiagramCall ==
  Call("diagram", "isCocartesianDiagram", isCocartesianDiagram(args.diagram))

ValidateAllAxiomsCall ==
  Call("diagram and registry", "validateAllAxioms",
       validateAllAxioms(args.diagram, args.registry))

ValidateAxiomCompatibilityCall ==
  Call("axioms and diagram", "validateAxiomCompatibility",
       validateAxiomCompatibility(args.axioms, args.diagram))

OptimizeValidationOrderCall ==
  Call("axioms and diagram", "optimizeValidationOrder",
       optimizeValidationOrder(args.axioms, args.diagram))

\* a call of a method of the AxiomRegistry of the session
RegistryCall(method, axiom, id, outcome, axioms) ==
  /\ args.shape = "registry session"
  /\ Len(calls) < MaxCalls
  /\ op' = method
  /\ result' = outcome
  /\ registryAxioms' = axioms
  /\ calls' = Append(calls, [method |-> method, axiom |-> axiom, id |-> id])
  /\ UNCHANGED <<args, diagramStoreVars, modeStoreVars, rewriteStoreVars>>

RegisterCall ==
  \E axiom \in AxiomPool :
    RegistryCall("register", axiom, axiom.id,
                 register(registryAxioms, axiom).outcome,
                 register(registryAxioms, axiom).axioms)

UnregisterCall ==
  \E id \in AxiomIds :
    RegistryCall("unregister", Undefined, id,
                 unregister(registryAxioms, id).outcome,
                 unregister(registryAxioms, id).axioms)

GetAxiomCall ==
  \E id \in AxiomIds :
    RegistryCall("getAxiom", Undefined, id,
                 Return(getAxiom(registryAxioms, id)), registryAxioms)

Next ==
  \/ IsValidDiagramCall
  \/ NormalizeDiagramCall
  \/ IsNormalFormCall
  \/ ComposeDiagramsCall
  \/ GetCompositionTypeCall
  \/ IsComposableCall
  \/ ComposeThreeCall
  \/ EncodeWithHeaderCall
  \/ DecodeWithHeaderCall
  \/ ComposeRewritesCall
  \/ ComposeSequentiallyCall
  \/ PerformColimitContractionCall
  \/ ReduceTermsCall
  \/ FindContractiblePartsCall
  \/ CheckTypeConsistencyCall
  \/ IsCartesianDiagramCall
  \/ IsCocartesianDiagramCall
  \/ ValidateAllAxiomsCall
  \/ ValidateAxiomCompatibilityCall
  \/ OptimizeValidationOrderCall
  \/ RegisterCall
  \/ UnregisterCall
  \/ GetAxiomCall

Spec == Init /\ [][Next]_vars

(***************************************************************************)
(* The diagram store as a state machine: a behaviour is a session of       *)
(* calls on the store.  calls logs every call with its argument and its    *)
(* outcome.                                                                *)
(***************************************************************************)
DiagramStoreSession == [shape |-> "diagram store session"]

\* the diagrams callers hand to the store; two are not valid
StoreDiagrams ==
  {createGeneratorDiagram(GA), createGeneratorDiagram(GB),
   DiagramN(1, createGeneratorDiagram(GA), <<CAB>>),
   DiagramObject(Num(-1), Undefined, Undefined, Undefined), Null}

StoreGenerators == {GC, GNoId}

\* the rewrites callers hand to the store; the last four are not valid
StoreRewrites ==
  {RAB, RewriteI, RNoMarker, Rewrite0(Null, Null),
   createGeneratorRewrite(GNoId, GB), Null}

Positions == {0}

DiagramStoreInit ==
  /\ op = "none"
  /\ args = DiagramStoreSession
  /\ result = Return(Undefined)
  /\ registryAxioms = <<>>
  /\ calls = <<>>
  /\ StoresInit

StoreState == DiagramState(currentDiagram, history)

\* a call of an operation of the store, which did `done`
StoreCall(method, arg, done) ==
  /\ args.shape = "diagram store session"
  /\ Len(calls) < MaxStoreCalls
  /\ op' = method
  /\ result' = done.outcome
  /\ currentDiagram' = done.state.currentDiagram
  /\ history' = done.state.history
  /\ calls' = Append(calls, [method |-> method, arg |-> arg,
                             outcome |-> done.outcome])
  /\ UNCHANGED <<args, registryAxioms, modeStoreVars, rewriteStoreVars>>

SetDiagramCall ==
  \E diagram \in StoreDiagrams :
    StoreCall("setDiagram", diagram, setDiagram(StoreState, diagram))

ClearDiagramCall ==
  StoreCall("clearDiagram", Undefined, clearDiagram(StoreState))

UndoCall == StoreCall("undo", Undefined, undo(StoreState))

ApplyRewriteCall ==
  \E rewrite \in StoreRewrites, position \in Positions :
    StoreCall("applyRewrite", rewrite,
              applyRewrite(StoreState, rewrite, position))

AddGeneratorCall ==
  \E generator \in StoreGenerators :
    StoreCall("addGenerator", generator, addGenerator(StoreState, generator))

ComposeWithDiagramCall ==
  \E diagram \in StoreDiagrams :
    StoreCall("composeWithDiagram", diagram,
              composeWithDiagram(StoreState, diagram))

DiagramStoreNext ==
  \/ SetDiagramCall
  \/ ClearDiagramCall
  \/ UndoCall
  \/ ApplyRewriteCall
  \/ AddGeneratorCall
  \/ ComposeWithDiagramCall

DiagramStoreSpec == DiagramStoreInit /\ [][DiagramStoreNext]_vars

(***************************************************************************)
(* The mode store as a state machine: calls, the callbacks of due timers   *)
(* and the passing of time.  A timer fires once its delay has passed and   *)
(* before time moves on.                                                   *)
(***************************************************************************)
ModeStoreSession == [shape |-> "mode store session"]

Modes == {"formula", "proof"}

\* the clock moves in steps of at most TickMs up to MaxTime
TickMs == 100

ModeStoreInit ==
  /\ op = "none"
  /\ args = ModeStoreSession
  /\ result = Return(Undefined)
  /\ registryAxioms = <<>>
  /\ calls = <<>>
  /\ StoresInit

CurrentModeState == ModeState(mode, previousMode, transitioning, timers)

\* a call of an operation of the store asking for mode m, which left
\* `state`; the log keeps the time of the call and what the call found
ModeCall(method, m, state) ==
  /\ args.shape = "mode store session"
  /\ Len(calls) < MaxModeCalls
  /\ op' = method
  /\ result' = Return(Undefined)
  /\ mode' = state.mode
  /\ previousMode' = state.previousMode
  /\ transitioning' = state.transitioning
  /\ timers' = state.timers
  /\ calls' = Append(calls, [method |-> method, requested |-> m, at |-> now,
                             found |-> CurrentModeState])
  /\ UNCHANGED <<args, registryAxioms, now, diagramStoreVars,
                 rewriteStoreVars>>

SetModeCall ==
  \E m \in Modes : ModeCall("setMode", m, setMode(CurrentModeState, m, now))

ToggleModeCall ==
  ModeCall("toggleMode", ToggledMode(CurrentModeState),
           toggleMode(CurrentModeState, now))

TimerFires ==
  /\ args.shape = "mode store session"
  /\ timers # <<>>
  /\ Head(timers).due <= now
  /\ mode' = TimerCallback(CurrentModeState).mode
  /\ previousMode' = TimerCallback(CurrentModeState).previousMode
  /\ transitioning' = TimerCallback(CurrentModeState).transitioning
  /\ timers' = TimerCallback(CurrentModeState).timers
  /\ UNCHANGED <<op, args, result, registryAxioms, calls, now,
                 diagramStoreVars, rewriteStoreVars>>

\* the clock after a tick: it stops at the time the next timer is due
AfterTick(time, pending) ==
  IF pending # <<>> /\ Head(pending).due < time + TickMs
    THEN Head(pending).due
    ELSE time + TickMs

TimePasses ==
  /\ args.shape = "mode store session"
  /\ now + TickMs <= MaxTime
  /\ \A i \in 1..Len(timers) : timers[i].due > now
  /\ now' = AfterTick(now, timers)
  /\ UNCHANGED <<op, args, result, registryAxioms, calls, mode, previousMode,
                 transitioning, timers, diagramStoreVars, rewriteStoreVars>>

ModeStoreNext ==
  \/ SetModeCall
  \/ ToggleModeCall
  \/ TimerFires
  \/ TimePasses

ModeStoreSpec == ModeStoreInit /\ [][ModeStoreNext]_vars

(***************************************************************************)
(* The rewrite store as a state machine: a session of calls on the store.  *)
(***************************************************************************)
RewriteStoreSession == [shape |-> "rewrite store session"]

RuleIds == {Str("r1"), AxiomRuleId("npr-unit")}

RuleRewrites == {RAB, RewriteI, RNoMarker}

\* the entries callers hand to batchAddRules
BatchEntries ==
  {[id |-> id, rewrite |-> rewrite, priority |-> Undefined] :
     id \in RuleIds, rewrite \in {RAB, RNoMarker}}

RuleBatches == SeqsUpTo(BatchEntries, MaxBatch)

\* the texts callers hand to importRules: an export of rules, an export
\* with entries that are dropped, another version, and no JSON at all
ImportTexts ==
  {JSONStringify([t |-> "object", version |-> Str("1.0"),
                  rules |-> Arr(rules)]) :
     rules \in
       {<<RewriteRule(Str("r1"), RBC, Num(0), Str("user"))>>,
        <<RewriteRule(Undefined, RAB, Num(0), Str("user")),
          RewriteRule(Str("r2"), RNoMarker, Num(0), Str("user")),
          RewriteRule(Str("r2"), RewriteI, Num(1), Str("user"))>>}}
  \cup {JSONStringify([t |-> "object", version |-> Str("2.0"),
                       rules |-> Arr(<<>>)]),
        Str("not json")}

RewriteStoreInit ==
  /\ op = "none"
  /\ args = RewriteStoreSession
  /\ result = Return(Undefined)
  /\ registryAxioms = <<>>
  /\ calls = <<>>
  /\ StoresInit

CurrentRewriteState == RewriteState(availableRules, ruleIndex, collections)

\* a call of an operation of the store with `outcome`, which left `state`
RewriteCall(method, outcome, state) ==
  /\ args.shape = "rewrite store session"
  /\ Len(calls) < MaxRewriteCalls
  /\ op' = method
  /\ result' = outcome
  /\ availableRules' = state.availableRules
  /\ ruleIndex' = state.ruleIndex
  /\ collections' = state.collections
  /\ calls' = Append(calls, [method |-> method])
  /\ UNCHANGED <<args, registryAxioms, diagramStoreVars, modeStoreVars>>

AddRewriteRuleCall ==
  \E id \in RuleIds, rewrite \in RuleRewrites :
    RewriteCall("addRewriteRule",
                addRewriteRule(CurrentRewriteState, id, rewrite,
                               Num(0)).outcome,
                addRewriteRule(CurrentRewriteState, id, rewrite,
                               Num(0)).state)

RemoveRewriteRuleCall ==
  \E id \in RuleIds :
    RewriteCall("removeRewriteRule", Return(Undefined),
                removeRewriteRule(CurrentRewriteState, id))

ClearAllRewritesCall ==
  RewriteCall("clearAllRewrites", Return(Undefined),
              clearAllRewrites(CurrentRewriteState))

BatchAddRulesCall ==
  \E rules \in RuleBatches :
    RewriteCall("batchAddRules", Return(Undefined),
                batchAddRules(CurrentRewriteState, rules))

LoadNPRAxiomsCall ==
  RewriteCall("loadNPRAxioms", Return(Undefined),
              loadNPRAxioms(CurrentRewriteState))

CreateRuleCollectionCall ==
  \E rewrites \in {<<>>, <<RAB>>} :
    RewriteCall("createRuleCollection", Return(Undefined),
                createRuleCollection(CurrentRewriteState, Str("c"), rewrites))

ImportRulesCall ==
  \E data \in ImportTexts :
    RewriteCall("importRules", Return(Undefined),
                importRules(CurrentRewriteState, data))

FindRuleByIdCall ==
  \E id \in RuleIds :
    RewriteCall("findRuleById",
                Return(findRuleById(CurrentRewriteState, id)),
                CurrentRewriteState)

RewriteStoreNext ==
  \/ AddRewriteRuleCall
  \/ RemoveRewriteRuleCall
  \/ ClearAllRewritesCall
  \/ BatchAddRulesCall
  \/ LoadNPRAxiomsCall
  \/ CreateRuleCollectionCall
  \/ ImportRulesCall
  \/ FindRuleByIdCall

RewriteStoreSpec == RewriteStoreInit /\ [][RewriteStoreNext]_vars

(***************************************************************************)
(* Properties.                                                             *)
(***************************************************************************)
AllValidRewrites(rewrites) ==
  \A i \in 1..Len(rewrites) : isValidRewrite(rewrites[i])

\* the error names the value v
Mentions(error, v) ==
  \E i \in 1..Len(error.details) : error.details[i] = v

\* C1: isValidDiagram is total on cyclic input: on a diagram whose source
\* chain leads back to itself it terminates, does not raise, and returns
\* false.
C1_CyclicDiagramIsRejected ==
  (op = "isValidDiagram" /\ SourceChainCyclic(args.diagram))
    => result = Return(FALSE)

\* C2: for every structurally valid diagram d, normalizeDiagram(d) returns a
\* diagram on which isNormalForm is true.
C2_NormalizedIsNormalForm ==
  (op = "normalizeDiagram" /\ Valid(args.diagram))
    => /\ Returned(result)
       /\ isNormalForm(result.value) = Return(TRUE)

\* C3: normalizeDiagram is idempotent: for every structurally valid diagram
\* d, normalizing normalizeDiagram(d) again returns a structurally equal
\* diagram.
C3_NormalizeIdempotent ==
  (op = "normalizeDiagram" /\ Valid(args.diagram) /\ Returned(result))
    => normalizeDiagram(result.value) = result

\* a valid diagram was normalized and normalization changed it
C3_Witness ==
  /\ op = "normalizeDiagram"
  /\ Valid(args.diagram)
  /\ Returned(result)
  /\ result.value # args.diagram

\* C4: the canonical empty diagram is a two-sided identity of
\* composeDiagrams: for every structurally valid d, composeDiagrams(empty, d)
\* and composeDiagrams(d, empty) return a diagram structurally equal to d.
C4_EmptyIsTwoSidedIdentity ==
  (op = "composeDiagrams" /\ Valid(args.left) /\ Valid(args.right))
    => /\ args.left = createEmptyDiagram => result = Return(args.right)
       /\ args.right = createEmptyDiagram => result = Return(args.left)

\* C5: getCompositionType returns 'invalid' and does not raise whenever one
\* of its arguments fails isValidDiagram (null, malformed or cyclic).
C5_InvalidArgumentIsInvalid ==
  (/\ op = "getCompositionType"
   /\ ~Valid(args.left) \/ ~Valid(args.right))
    => result = Return("invalid")

\* C6 as stated: for structurally valid l and r whose dimensions differ by
\* more than 2, composeDiagrams(l, r) raises and never returns a diagram.
C6_FarApartRaises ==
  (/\ op = "composeDiagrams"
   /\ Valid(args.left) /\ Valid(args.right)
   /\ Abs(args.left.dimension.n - args.right.dimension.n) > 2)
    => Raised(result)

\* C6 amended: for structurally valid l and r, neither of them an empty
\* diagram (dimension 0 with generator id 'empty'), whose dimensions differ
\* by more than 2, composeDiagrams(l, r) raises the composition error and
\* returns no diagram.
C6_FarApartNonEmptyRaises ==
  (/\ op = "composeDiagrams"
   /\ Valid(args.left) /\ Valid(args.right)
   /\ ~isEmptyDiagram(args.left) /\ ~isEmptyDiagram(args.right)
   /\ Abs(args.left.dimension.n - args.right.dimension.n) > 2)
    => result = Throw("Error",
                      "Diagrams cannot be composed: incompatible structures")

\* two valid non-empty diagrams more than 2 dimensions apart were composed
C6_Witness ==
  /\ op = "composeDiagrams"
  /\ Valid(args.left) /\ Valid(args.right)
  /\ ~isEmptyDiagram(args.left) /\ ~isEmptyDiagram(args.right)
  /\ Abs(args.left.dimension.n - args.right.dimension.n) > 2
  /\ Raised(result)

\* C7: for valid 0-dim rewrites left and right with left.target.id #
\* right.source.id, composeRewrites raises an error that names both
\* offending ids.
C7_MismatchNamesBothIds ==
  (/\ op = "composeRewrites"
   /\ isValidRewrite(args.left) /\ isValidRewrite(args.right)
   /\ args.left.dimension = Num(0) /\ args.right.dimension = Num(0)
   /\ args.left.target.id # args.right.source.id)
    => /\ Raised(result)
       /\ Mentions(result, args.left.target.id)
       /\ Mentions(result, args.right.source.id)

\* positions i such that list[i] and list[i+1] are 0-dim rewrites that do
\* not meet
AdjacentMismatches(rewrites) ==
  {i \in 1..(Len(rewrites) - 1) :
     /\ rewrites[i].dimension = Num(0)
     /\ rewrites[i + 1].dimension = Num(0)
     /\ rewrites[i].target.id # rewrites[i + 1].source.id}

Least(S) == CHOOSE i \in S : \A j \in S : i <= j

\* C8: for a list of valid rewrites, composeSequentially raises exactly when
\* some adjacent pair of 0-dim rewrites does not meet, and the error
\* identifies the first such position (counted from 0 or from 1).
C8_RaisesAtFirstMismatch ==
  (op = "composeSequentially" /\ AllValidRewrites(args.rewrites))
    => IF AdjacentMismatches(args.rewrites) = {}
         THEN Returned(result)
         ELSE /\ Raised(result)
              /\ LET i == Least(AdjacentMismatches(args.rewrites))
                 IN Mentions(result, Num(i)) \/ Mentions(result, Num(i - 1))

\* C9: for every list of at least two valid rewrites,
\* performColimitContraction(parts) has the outcome of
\* composeSequentially(parts): the same rewrite, or a raise where the fold
\* raises.
C9_ContractionIsSequentialComposition ==
  (/\ op = "performColimitContraction"
   /\ Len(args.rewrites) >= 2
   /\ AllValidRewrites(args.rewrites))
    => result = composeSequentially(args.rewrites)

\* C10: for every structurally valid diagram d with isNormalForm(d) true,
\* normalizeDiagram(d) returns a diagram structurally equal to d (stated
\* for the diagrams all of whose cospans are valid cospans).
C10_NormalFormIsFixedPoint ==
  (/\ op = "normalizeDiagram"
   /\ ValidWithValidCospans(args.diagram)
   /\ isNormalForm(args.diagram) = Return(TRUE))
    => result = Return(args.diagram)

\* C11: reduceTerms is idempotent: for every list L of valid rewrites,
\* reducing reduceTerms(L) again returns a list structurally equal to
\* reduceTerms(L).
C11_ReduceTermsIdempotent ==
  (op = "reduceTerms" /\ AllValidRewrites(args.rewrites))
    => /\ Returned(result)
       /\ reduceTerms(result.value.a) = result

\* C12: for every list of valid rewrites, of any length including 1, the
\* list reduceTerms returns contains no identity rewrite.
C12_ReducedHasNoIdentity ==
  (op = "reduceTerms" /\ AllValidRewrites(args.rewrites))
    => /\ Returned(result)
       /\ \A i \in 1..Len(result.value.a) :
            ~IsIdentityRewrite(result.value.a[i])

\* d.cospans flattened into forward, backward, forward, backward, ...
FlattenedCospans(cospans) ==
  [k \in 1..(2 * Len(cospans)) |->
     IF k % 2 = 1 THEN cospans[(k + 1) \div 2].forward
                  ELSE cospans[k \div 2].backward]

\* the adjacent pairs of equal dimension of s, in the order of s
AdjacentEqualDimensionPairs(s) ==
  LET SameDimension(i) == s[i].dimension = s[i + 1].dimension
      positions == SelectSeq([i \in 1..(Len(s) - 1) |-> i], SameDimension)
  IN [k \in 1..Len(positions) |->
        Arr(<<s[positions[k]], s[positions[k] + 1]>>)]

RECURSIVE PairsAlongSourceChain(_)
PairsAlongSourceChain(d) ==
  IF d.dimension.n = 0 THEN <<>>
  ELSE PairsAlongSourceChain(d.source)
       \o AdjacentEqualDimensionPairs(
            FlattenedCospans(SelectSeq(d.cospans.a, isValidCospan)))

MixedShape(d) ==
  /\ d.t = "object"
  /\ d.dimension.t = "number"
  /\ d.source # RootRef
  /\ \/ d.dimension.n = 0 /\ (d.source # Undefined \/ d.cospans # Undefined)
     \/ d.dimension.n >= 1 /\ d.generator # Undefined

\* C14: structural validation rejects mixed shapes: isValidDiagram returns
\* false for a dimension-0 diagram that also carries source or cospans, and
\* for a diagram of dimension n >= 1 that also carries generator.
C14_MixedShapeIsRejected ==
  (op = "isValidDiagram" /\ MixedShape(args.diagram))
    => result = Return(FALSE)

\* C15: when the validator of one registered axiom throws during
\* validateAllAxioms on a valid diagram, validateAllAxioms does not raise,
\* the report holds exactly one AXIOM_VALIDATION_ERROR under that axiom's
\* id, and every other registered axiom still has its own result entry.
C15_ThrowingAxiomIsContained ==
  (/\ op = "validateAllAxioms"
   /\ Valid(args.diagram)
   /\ \E i \in 1..Len(args.registry) :
        Raised(CallValidator(args.registry[i], args.diagram)))
    => /\ Returned(result)
       /\ Len(result.value.axiomResults) = Len(args.registry)
       /\ \A i \in 1..Len(args.registry) :
            LET axiom == args.registry[i]
                findings == CallValidator(axiom, args.diagram)
                entry == getAxiomResult(result.value, axiom.id)
            IN /\ entry # Undefined
               /\ IF Raised(findings)
                    THEN /\ Len(entry.errors) = 1
                         /\ entry.errors[1].code = "AXIOM_VALIDATION_ERROR"
                         /\ entry.errors[1].details[1] = axiom.id
                         /\ entry.warnings = <<>>
                    ELSE LET IsError(e) == e.severity = "error"
                             IsWarning(e) == e.severity = "warning"
                         IN /\ entry.errors
                                 = SelectSeq(findings.value, IsError)
                            /\ entry.warnings
                                 = SelectSeq(findings.value, IsWarning)

\* a valid diagram was validated against a registry whose first axiom
\* throws and whose next axiom reports findings
C15_Witness ==
  /\ op = "validateAllAxioms"
  /\ Valid(args.diagram)
  /\ Len(args.registry) >= 2
  /\ Raised(CallValidator(args.registry[1], args.diagram))
  /\ Returned(CallValidator(args.registry[2], args.diagram))
  /\ Returned(result)
  /\ getAxiomResult(result.value, args.registry[2].id).warnings # <<>>

\* C16: for every diagram d, checkTypeConsistency(d) is true exactly when
\* isValidDiagram(d) holds and validateAllAxioms(d) with the default
\* registry reports isValid() = true; in every other case it returns false
\* instead of raising.
C16_TypeConsistencyIsValidityAndAxioms ==
  op = "checkTypeConsistency"
    => LET valid == isValidDiagram(args.diagram)
           report == validateAllAxioms(args.diagram, defaultRegistry)
       IN result = Return(/\ valid = Return(TRUE)
                          /\ Returned(report)
                          /\ isValid(report.value))

\* the repeated source chain of d reaches a dimension-0 diagram
RECURSIVE ReachesRoot(_)
ReachesRoot(d) ==
  /\ d.t = "object"
  /\ d.dimension.t = "number"
  /\ \/ d.dimension.n = 0
     \/ d.dimension.n >= 1 /\ ReachesRoot(d.source)

\* the polarity of the generator of that dimension-0 diagram
RECURSIVE RootPolarity(_)
RootPolarity(d) ==
  IF d.dimension.n = 0
    THEN IF d.generator.t = "object" THEN d.generator.color ELSE Undefined
    ELSE RootPolarity(d.source)

\* C17 as stated: for any diagram d whose repeated source chain reaches a
\* dimension-0 root, isCartesianDiagram(d) is true if and only if that
\* root's generator has polarity cartesian, and isCocartesianDiagram(d) is
\* true if and only if it has polarity cocartesian.
C17_PolarityOfRootOfAnyDiagram ==
  /\ (op = "isCartesianDiagram" /\ ReachesRoot(args.diagram))
       => result = Return(RootPolarity(args.diagram) = Str("cartesian"))
  /\ (op = "isCocartesianDiagram" /\ ReachesRoot(args.diagram))
       => result = Return(RootPolarity(args.diagram) = Str("cocartesian"))

\* C17 amended: for any structurally valid diagram d (its source chain then
\* reaches a dimension-0 root), isCartesianDiagram(d) is true if and only if
\* that root's generator has polarity cartesian, and isCocartesianDiagram(d)
\* is true if and only if it has polarity cocartesian; on a value for which
\* isValidDiagram returns false both return false.
C17_PolarityOfRootOfValidDiagram ==
  /\ op = "isCartesianDiagram"
       => IF Valid(args.diagram)
            THEN result = Return(RootPolarity(args.diagram) = Str("cartesian"))
            ELSE isValidDiagram(args.diagram) = Return(FALSE)
                   => result = Return(FALSE)
  /\ op = "isCocartesianDiagram"
       => IF Valid(args.diagram)
            THEN result = Return(RootPolarity(args.diagram)
                                   = Str("cocartesian"))
            ELSE isValidDiagram(args.diagram) = Return(FALSE)
                   => result = Return(FALSE)

\* a valid diagram of dimension 1 or more over a cartesian root was found
\* cartesian
C17_Witness ==
  /\ op = "isCartesianDiagram"
  /\ Valid(args.diagram)
  /\ args.diagram.dimension.n >= 1
  /\ result = Return(TRUE)

HasCategory(axioms, category) ==
  \E i \in 1..Len(axioms) : axioms[i].category = category

\* C18: validateAxiomCompatibility(axioms, d) reports a warning-severity
\* category-mismatch conflict whenever axioms contains both a cartesian and
\* a cocartesian axiom and the dimension-0 root of d carries a polarity tag,
\* for d of any dimension, not only dimension 0.
C18_MixedCategoriesAreFlagged ==
  (/\ op = "validateAxiomCompatibility"
   /\ Valid(args.diagram)
   /\ HasCategory(args.axioms, "cartesian")
   /\ HasCategory(args.axioms, "cocartesian")
   /\ RootPolarity(args.diagram) \in {Str("cartesian"), Str("cocartesian")})
    => /\ Returned(result)
       /\ \E i \in 1..Len(result.value.conflicts) :
            /\ result.value.conflicts[i].code = "CATEGORY_MISMATCH"
            /\ result.value.conflicts[i].severity = "warning"

\* the axioms of the list of the given category, in the order of the list
AxiomsOfCategory(axioms, category) ==
  LET InCategory(axiom) == axiom.category = category
  IN SelectSeq(axioms, InCategory)

\* the category other than the given one
OtherCategory(category) ==
  IF category = "cartesian" THEN "cocartesian" ELSE "cartesian"

\* C19: optimizeValidationOrder(axioms, d) returns the structural
\* axioms first, then the axioms whose category equals the polarity of the
\* root of d, then the axioms of the other category, for d of any dimension.
C19_RootPolarityFirst ==
  (/\ op = "optimizeValidationOrder"
   /\ Valid(args.diagram)
   /\ RootPolarity(args.diagram) \in {Str("cartesian"), Str("cocartesian")})
    => result
         = Return(Arr(AxiomsOfCategory(args.axioms, "structural")
             \o AxiomsOfCategory(args.axioms, RootPolarity(args.diagram).s)
             \o AxiomsOfCategory(args.axioms,
                  OtherCategory(RootPolarity(args.diagram).s))))

\* the positions of the calls that unregister id
UnregistersOf(log, id) ==
  {k \in 1..Len(log) : log[k].method = "unregister" /\ log[k].id = id}

\* the positions of the calls that register an axiom under id after the
\* last call that unregisters id
RegistersSinceUnregister(log, id) ==
  {k \in 1..Len(log) :
     /\ log[k].method = "register" /\ log[k].id = id
     /\ \A u \in UnregistersOf(log, id) : u < k}

\* the axiom first registered under id since the last unregister of id
FirstRegistered(log, id) ==
  IF RegistersSinceUnregister(log, id) = {} THEN Undefined
  ELSE log[Least(RegistersSinceUnregister(log, id))].axiom

\* C20: AxiomRegistry.register(a) raises when a's id is already registered
\* and leaves the registry unchanged, so after any sequence of register and
\* unregister calls getAxiom(id) is the axiom first registered under that id
\* since its last unregister (undefined when there is none).
C20_FirstRegistrationWins ==
  /\ \A id \in AxiomIds :
       getAxiom(registryAxioms, id) = FirstRegistered(calls, id)
  /\ (op = "register" /\ calls # <<>>)
       => LET before == SubSeq(calls, 1, Len(calls) - 1)
              id == calls[Len(calls)].id
          IN Raised(result) <=> FirstRegistered(before, id) # Undefined
  /\ op = "getAxiom"
       => result = Return(FirstRegistered(calls, calls[Len(calls)].id))

\* a second axiom was registered under an id already taken, the call
\* raised, and the registry still holds the first one
C20_Witness ==
  /\ op = "register"
  /\ Raised(result)
  /\ calls[Len(calls)].axiom
       # FirstRegistered(calls, calls[Len(calls)].id)
  /\ getAxiom(registryAxioms, calls[Len(calls)].id)
       = FirstRegistered(calls, calls[Len(calls)].id)

\* C21: applyRewrite called with a rewrite that is not structurally valid
\* raises an error and leaves currentDiagram and history as they were.
C21_InvalidRewriteIsRejected ==
  [][(/\ op' = "applyRewrite"
      /\ Len(calls') = Len(calls) + 1
      /\ ~isValidRewrite(calls'[Len(calls')].arg))
       => /\ Raised(result')
          /\ currentDiagram' = currentDiagram
          /\ history' = history]_vars

\* the log is a run of setDiagram calls followed by a run of undo calls
SetsThenUndos(log) ==
  \E n \in 0..Len(log) :
    /\ \A i \in 1..n : log[i].method = "setDiagram"
    /\ \A i \in (n + 1)..Len(log) : log[i].method = "undo"

\* the diagrams of the setDiagram calls of the log that returned, in order
RECURSIVE DiagramsSet(_)
DiagramsSet(log) ==
  IF log = <<>> THEN <<>>
  ELSE (IF Head(log).method = "setDiagram" /\ Returned(Head(log).outcome)
          THEN <<Head(log).arg>>
          ELSE <<>>)
       \o DiagramsSet(Tail(log))

RECURSIVE UndoCount(_)
UndoCount(log) ==
  IF log = <<>> THEN 0
  ELSE (IF Head(log).method = "undo" THEN 1 ELSE 0) + UndoCount(Tail(log))

\* C22: from the initial state, after n successful setDiagram calls with
\* d1..dn followed by k undo calls, currentDiagram is d(n-k) (the initial
\* empty diagram when k = n) and history has length n-k; an undo with an
\* empty history changes neither, so k > n leaves the initial state.
C22_HistoryIsUndoStack ==
  (args.shape = "diagram store session" /\ SetsThenUndos(calls))
    => LET ds == <<createEmptyStoreDiagram>> \o DiagramsSet(calls)
           n == Len(ds) - 1
           k == UndoCount(calls)
           left == IF k <= n THEN n - k ELSE 0
       IN /\ currentDiagram = ds[left + 1]
          /\ Len(history) = left

\* two different diagrams were set and one undo brought back the first
C22_Witness ==
  /\ Len(calls) = 3
  /\ calls[1].method = "setDiagram" /\ Returned(calls[1].outcome)
  /\ calls[2].method = "setDiagram" /\ Returned(calls[2].outcome)
  /\ calls[1].arg # calls[2].arg
  /\ calls[3].method = "undo"
  /\ currentDiagram = calls[1].arg
  /\ Len(history) = 1

\* C26: after any sequence of operations of the diagram store, including
\* calls that raise, currentDiagram and every entry of history satisfy
\* isValidDiagram.
C26_StoreHoldsValidDiagrams ==
  /\ Valid(currentDiagram)
  /\ \A i \in 1..Len(history) : Valid(history[i])

\* C30: applyRewrite with a 0-dimensional rewrite r on a 0-dimensional
\* current diagram whose generator id differs from r.source.id does not
\* change currentDiagram to the diagram of r.target.
C30_MismatchedRewriteIsNotApplied ==
  [][(/\ op' = "applyRewrite"
      /\ Len(calls') = Len(calls) + 1
      /\ isValidRewrite(calls'[Len(calls')].arg)
      /\ calls'[Len(calls')].arg.dimension = Num(0)
      /\ currentDiagram.dimension = Num(0)
      /\ calls'[Len(calls')].arg.source.id # currentDiagram.generator.id
      /\ currentDiagram # Diagram0(calls'[Len(calls')].arg.target))
       => currentDiagram' # Diagram0(calls'[Len(calls')].arg.target)]_vars

\* the last call of the log: a setMode made with no transition pending that
\* asked for a mode other than the current one
LastCallStartsTransition(log) ==
  /\ log # <<>>
  /\ log[Len(log)].method = "setMode"
  /\ log[Len(log)].found.timers = <<>>
  /\ log[Len(log)].requested # log[Len(log)].found.mode

\* C23: with no transition pending, setMode(m) with m other than the current
\* mode at once sets transitioning to true and previousMode to the old mode
\* and leaves mode alone; until 300 ms have passed nothing else changes, and
\* once more than 300 ms have passed with no other call, mode is m and
\* transitioning is false.  setMode(m) with m the current mode changes
\* nothing.
C23_SetModeTransitions ==
  [][/\ (/\ op' = "setMode"
         /\ Len(calls') = Len(calls) + 1
         /\ timers = <<>>)
          => IF calls'[Len(calls')].requested # mode
               THEN /\ transitioning' = TRUE
                    /\ previousMode' = Str(mode)
                    /\ mode' = mode
               ELSE UNCHANGED <<mode, previousMode, transitioning, timers>>
     /\ (args.shape = "mode store session" /\ LastCallStartsTransition(calls'))
          => /\ now' < calls'[Len(calls')].at + TRANSITION_MS
                  => /\ mode' = calls'[Len(calls')].found.mode
                     /\ transitioning' = TRUE
             /\ now' > calls'[Len(calls')].at + TRANSITION_MS
                  => /\ mode' = calls'[Len(calls')].requested
                     /\ transitioning' = FALSE]_vars

\* setMode("proof") was called in mode "formula" with nothing pending, more
\* than 300 ms went by without another call and the mode is now "proof"
C23_Witness ==
  /\ args.shape = "mode store session"
  /\ LastCallStartsTransition(calls)
  /\ calls[Len(calls)].requested = "proof"
  /\ now > calls[Len(calls)].at + TRANSITION_MS
  /\ mode = "proof"
  /\ previousMode = Str("formula")
  /\ transitioning = FALSE

\* C27: when setMode or toggleMode is called again while the timer of an
\* earlier transition is pending, then once all timers have fired mode is
\* the mode the most recent call asked for, and transitioning is not false
\* while a timer is outstanding.
C27_OverlappingTransitionsSettle ==
  (/\ args.shape = "mode store session"
   /\ calls # <<>>
   /\ calls[Len(calls)].found.timers # <<>>)
    => /\ timers = <<>> => mode = calls[Len(calls)].requested
       /\ timers # <<>> => transitioning = TRUE

\* C28: after any sequence of operations of the rewrite store,
\* availableRules holds at most one rule per id, and that rule is the one
\* ruleIndex maps the id to.
C28_OneRulePerId ==
  args.shape = "rewrite store session"
    => /\ \A i, j \in 1..Len(availableRules) :
            availableRules[i].id = availableRules[j].id => i = j
       /\ \A i \in 1..Len(availableRules) :
            IndexGet(ruleIndex, availableRules[i].id) = availableRules[i]

\* C25: isComposable is an exact pre-flight check of composeDiagrams: for
\* all l and r, isComposable(l, r) is true if and only if
\* composeDiagrams(l, r) returns a diagram without raising.
C25_IsComposableIsExact ==
  op = "composeDiagrams"
    => (Returned(result)
          <=> isComposable(args.left, args.right) = Return(TRUE))

\* two diagrams, neither empty, two dimensions apart were composed
C25_Witness ==
  /\ op = "composeDiagrams"
  /\ Returned(result)
  /\ Valid(args.left) /\ Valid(args.right)
  /\ ~isEmptyDiagram(args.left) /\ ~isEmptyDiagram(args.right)
  /\ Abs(args.left.dimension.n - args.right.dimension.n) = 2
  /\ isComposable(args.left, args.right) = Return(TRUE)

\* the outcome of one grouping agrees with the other grouping, when that
\* one returned
AgreesWith(outcome, other) == Returned(other) => outcome = other

\* C29: composeDiagrams is associative: for structurally valid a, b and c
\* for which both groupings succeed, composeDiagrams(composeDiagrams(a, b), c)
\* is structurally equal to composeDiagrams(a, composeDiagrams(b, c)).
C29_ComposeDiagramsIsAssociative ==
  (/\ op = "composeDiagrams left first"
   /\ Valid(args.first) /\ Valid(args.second) /\ Valid(args.third)
   /\ Returned(result))
    => AgreesWith(result, ComposeThree("right first", args.first,
                                       args.second, args.third))

\* the bytes decode to a value structurally equal to x
DecodesTo(decoded, x) == decoded.success /\ decoded.data = x

\* C24: for every structurally valid value x of the five serializable
\* types, encodeWithHeader(x) succeeds and decodeWithHeader of the bytes it
\* returned succeeds with data structurally equal to x.
C24_HeaderRoundTrip ==
  (/\ op = "encodeWithHeader"
   /\ IsValidSerializable(args.type, args.value))
    => /\ Returned(result)
       /\ DecodesTo(decodeWithHeader(result.value), args.value)

====
